---- MODULE Spec2Model ----
(***************************************************************************)
(* A model of the formula language of aundis/formula: the tree-walking     *)
(* evaluator (Runner), the scanner and the recursive-descent parser.       *)
(*                                                                         *)
(* Runtime values are records tagged by t:                                 *)
(*   "null"  nil                     "bool"  Go bool (field b)             *)
(*   "num"   finite *decimal.Big (n) "nan"   *decimal.Big holding NaN      *)
(*   "str"   Go string (s)           "int"   Go int, before formatInput    *)
(*   "f64"   Go float64 (n)          "f64nan" Go float64 NaN               *)
(*   "fn"    Go func value (f)       "arr"   []interface{} (xs)            *)
(*   "obj"   map[string]interface{} (m)                                    *)
(*   "nilptr" a nil pointer to a host struct type                          *)
(*   "time"  time.Time (y, m, d)     "slice" a typed Go slice (ty, xs)     *)
(*   "ctx"   context.Context         "rvzero" a reflect.Value, as a value  *)
(*   "struct" a host struct value, m its exported fields                   *)
(* The number universe of the model is the integers.                       *)
(***************************************************************************)
EXTENDS Integers, Sequences, FiniteSets, TLC

VARIABLES
  heap,     \* the Go maps that exist: map reference -> contents
  this,     \* Runner.this of every Runner: a map reference, 0 for nil
  last,     \* the latest call of the Runner API and its outcome
  prev,     \* the formula of the call before the latest one, "" if no Resolve
  nanCmp,   \* what decimal.Big.Cmp answers when an operand is NaN
  proc,     \* per Runner: an in-flight Resolve of the parallel scenario
  race,     \* a map write was concurrent with another access to that map
  scen,     \* the host program of this behaviour: its keys, values, formulas
  src,      \* the source text handed to ParseSourceCode
  parsed    \* what ParseSourceCode returned for it

vars == <<heap, this, last, prev, nanCmp, proc, race, scen, src, parsed>>

---------------------------------------------------------------------------
(* Values *)

Null == [t |-> "null"]
Bool(b) == [t |-> "bool", b |-> b]
Num(n) == [t |-> "num", n |-> n]
NaN == [t |-> "nan"]
Str(s) == [t |-> "str", s |-> s]
GoInt(n) == [t |-> "int", n |-> n]
F64(n) == [t |-> "f64", n |-> n]
F64NaN == [t |-> "f64nan"]
Fn(f) == [t |-> "fn", f |-> f]
Arr(xs) == [t |-> "arr", xs |-> xs]
Obj(m) == [t |-> "obj", m |-> m]
NilPtr == [t |-> "nilptr"]
Time(y, m, d) == [t |-> "time", y |-> y, m |-> m, d |-> d]
GoSlice(ty, xs) == [t |-> "slice", ty |-> ty, xs |-> xs]
Ctx == [t |-> "ctx"]
Struct(m) == [t |-> "struct", m |-> m]

\* The empty Go map.
EmptyMap == [k \in {} |-> Null]

\* m[k] of a Go map: the zero value (nil) for a missing key.
MapGet(m, k) == IF k \in DOMAIN m THEN m[k] ELSE Null

\* m[k] = v of a Go map.
MapPut(m, k, v) == [x \in DOMAIN m \cup {k} |-> IF x = k THEN v ELSE m[x]]

\* utilities.go IsNull: the nil interface or a nil pointer.
IsNull(v) == v.t \in {"null", "nilptr"}

---------------------------------------------------------------------------
(* Decimal text *)

Digits == <<"0", "1", "2", "3", "4", "5", "6", "7", "8", "9">>

IsDigitCh(c) == \E i \in 1..10 : Digits[i] = c

DigitVal(c) == (CHOOSE i \in 1..10 : Digits[i] = c) - 1

CharAt(s, i) == SubSeq(s, i, i)

RECURSIVE AllDigits(_)
AllDigits(s) ==
  IF Len(s) = 0 THEN TRUE
  ELSE IsDigitCh(CharAt(s, 1)) /\ AllDigits(SubSeq(s, 2, Len(s)))

RECURSIVE DigitsVal(_)
DigitsVal(s) ==
  IF Len(s) = 0 THEN 0
  ELSE DigitsVal(SubSeq(s, 1, Len(s) - 1)) * 10 + DigitVal(CharAt(s, Len(s)))

\* decimal.Big.SetString on the texts of the model: an optional sign and
\* decimal digits. ok is the second result of SetString.
SetString(s) ==
  LET neg == Len(s) > 0 /\ CharAt(s, 1) = "-"
      body == IF neg THEN SubSeq(s, 2, Len(s)) ELSE s
  IN IF Len(body) > 0 /\ AllDigits(body)
     THEN [ok |-> TRUE, n |-> IF neg THEN 0 - DigitsVal(body) ELSE DigitsVal(body)]
     ELSE [ok |-> FALSE, n |-> 0]

RECURSIVE NatToStr(_)
NatToStr(n) ==
  IF n < 10 THEN Digits[n + 1]
  ELSE NatToStr(n \div 10) \o Digits[(n % 10) + 1]

\* decimal.Big.String of an integer value.
IntToStr(n) == IF n < 0 THEN "-" \o NatToStr(0 - n) ELSE NatToStr(n)

---------------------------------------------------------------------------
(* Coercions of the evaluator *)

\* fmt.Sprintf("%v", v) for the values that are neither string nor decimal;
\* the elements of a slice are printed with %v between brackets.
RECURSIVE Sprintv(_)
RECURSIVE SprintElements(_)

SprintElements(xs) ==
  IF Len(xs) = 0 THEN ""
  ELSE LET x == Head(xs)
           text == CASE x.t = "str" -> x.s
                     [] x.t = "num" -> IntToStr(x.n)
                     [] x.t = "nan" -> "NaN"
                     [] OTHER -> Sprintv(x)
       IN IF Len(xs) = 1 THEN text ELSE text \o " " \o SprintElements(Tail(xs))

Sprintv(v) ==
  CASE v.t = "null" -> "<nil>"
    [] v.t = "bool" -> IF v.b THEN "true" ELSE "false"
    [] v.t = "int" -> IntToStr(v.n)
    [] v.t = "rvzero" -> "<nil>"
    [] v.t \in {"arr", "slice"} -> "[" \o SprintElements(v.xs) \o "]"
    [] OTHER -> "%v"

convToString(v) ==
  CASE v.t = "str" -> v.s
    [] v.t = "num" -> IntToStr(v.n)
    [] v.t = "nan" -> "NaN"
    [] OTHER -> Sprintv(v)

convToNumber(v) ==
  CASE v.t \in {"num", "nan"} -> v
    [] v.t = "str" -> IF SetString(v.s).ok THEN Num(SetString(v.s).n) ELSE NaN
    [] v.t = "bool" -> IF v.b THEN Num(1) ELSE Num(0)
    [] OTHER -> IF IsNull(v) THEN Num(0) ELSE NaN

\* decimal.Big.Cmp: -1, 0 or 1; the library leaves the answer open when an
\* operand is NaN, so the model takes it from nanCmp.
Cmp(x, y) ==
  IF x.t = "nan" \/ y.t = "nan" THEN nanCmp
  ELSE IF x.n < y.n THEN -1 ELSE IF x.n = y.n THEN 0 ELSE 1

toBool(v) ==
  CASE v.t = "bool" -> v.b
    [] v.t = "str" -> Len(v.s) > 0
    [] v.t \in {"num", "nan"} -> Cmp(v, Num(0)) # 0 /\ v.t # "nan"
    [] OTHER -> ~IsNull(v)

\* formatInput: Go integers and floats become decimals, the rest is kept.
formatInput(v) ==
  CASE v.t = "int" -> Num(v.n)
    [] v.t = "f64" -> Num(v.n)
    [] v.t = "f64nan" -> NaN
    [] OTHER -> v

\* try2Float64: a decimal leaves Resolve as a float64.
try2Float64(v) ==
  CASE v.t = "num" -> F64(v.n)
    [] v.t = "nan" -> F64NaN
    [] OTHER -> v

\* reflect.TypeOf(v1) == reflect.TypeOf(v2)
SameGoType(v1, v2) ==
  \/ v1.t = v2.t
  \/ {v1.t, v2.t} = {"num", "nan"}

\* Go's v1 == v2 on two interface values panics when both hold the same
\* uncomparable dynamic type (a map, a slice, a func).
GoEqualPanics(v1, v2) == v1.t = v2.t /\ v1.t \in {"obj", "arr", "fn"}

\* Go's v1 == v2 where it does not panic; two *decimal.Big are equal as
\* pointers only, which the model reads as never.
GoEqual(v1, v2) == v1.t \notin {"num", "nan"} /\ v1 = v2

valueLikeEqualTo(v1, v2) ==
  CASE v1.t \in {"num", "nan"} -> Cmp(convToNumber(v1), convToNumber(v2)) = 0
    [] v1.t = "bool" -> Cmp(convToNumber(v1), convToNumber(v2)) = 0
    [] v1.t = "str" -> convToString(v1) = convToString(v2)
    [] OTHER -> (IsNull(v1) /\ IsNull(v2)) \/ GoEqual(v1, v2)

\* valueLikeEqualTo reaches v1 == v2 only in its default case.
valueLikeEqualPanics(v1, v2) ==
  /\ v1.t \notin {"num", "nan", "bool", "str"}
  /\ ~(IsNull(v1) /\ IsNull(v2))
  /\ GoEqualPanics(v1, v2)

valueEqualTo(v1, v2) ==
  IF (IsNull(v1) /\ IsNull(v2)) \/ GoEqual(v1, v2) THEN TRUE
  ELSE IF SameGoType(v1, v2) THEN
    CASE v1.t \in {"num", "nan"} -> Cmp(v1, v2) = 0
      [] v1.t = "bool" -> v1.b = v2.b
      [] v1.t = "str" -> v1.s = v2.s
      [] OTHER -> FALSE
  ELSE FALSE

valueEqualPanics(v1, v2) == ~(IsNull(v1) /\ IsNull(v2)) /\ GoEqualPanics(v1, v2)

---------------------------------------------------------------------------
(* AST nodes, with the field names of the Go structs *)

Identifier(v) == [kind |-> "Identifier", Value |-> v]
LiteralExpression(tok, v) == [kind |-> "LiteralExpression", Token |-> tok, Value |-> v]
PrefixUnaryExpression(op, e) ==
  [kind |-> "PrefixUnaryExpression", Operator |-> op, Operand |-> e]
BinaryExpression(l, op, r) ==
  [kind |-> "BinaryExpression", Left |-> l, Operator |-> op, Right |-> r]
ArrayLiteralExpression(es) == [kind |-> "ArrayLiteralExpression", Elements |-> es]
ParenthesizedExpression(e) == [kind |-> "ParenthesizedExpression", Expression |-> e]
SelectorExpression(e, name, assert) ==
  [kind |-> "SelectorExpression", Expression |-> e, Name |-> name, Asserted |-> assert]
CallExpression(e, args, dots) ==
  [kind |-> "CallExpression", Expression |-> e, Arguments |-> args, DotDotDotToken |-> dots]
ConditionalExpression(c, a, b) ==
  [kind |-> "ConditionalExpression", Condition |-> c, WhenTrue |-> a, WhenFalse |-> b]
TypeOfExpression(e) == [kind |-> "TypeOfExpression", Expression |-> e]

---------------------------------------------------------------------------
(* Outcomes of an evaluation step. st is the Runner's view of memory:      *)
(* [heap, this, priv], priv being the reference that a map the Runner      *)
(* makes for itself gets. An error or a panic keeps the writes made        *)
(* before it.                                                              *)

Ok(v, st) == [kind |-> "ok", v |-> v, st |-> st]
Err(msg, st) == [kind |-> "err", msg |-> msg, st |-> st]
Panic(msg, st) == [kind |-> "panic", msg |-> msg, st |-> st]

\* The map r.this refers to; reading a nil map finds nothing.
ThisMap(st) == IF st.this = 0 THEN EmptyMap ELSE st.heap[st.this]

---------------------------------------------------------------------------
(* The builtins table (innerMap) and the native functions of the model *)

BuiltinFuncs ==
  {"now", "toDay", "date", "addDate", "year", "month", "day", "hour", "minute",
   "second", "millSecond", "weekDay", "timeFormat", "useTimezone", "abs", "ceil",
   "exp", "floor", "ln", "log", "max", "min", "round", "roundBank", "roundCash",
   "sqrt", "finite", "startWith", "endWith", "contains", "find", "includes",
   "left", "right", "len", "lower", "upper", "lpad", "rpad", "mid", "replace",
   "trim", "regexp", "mapToArr", "join", "toString", "toInt", "toFloat"}

innerMap ==
  [k \in {"true", "false"} \cup BuiltinFuncs |->
     IF k = "true" THEN Bool(TRUE)
     ELSE IF k = "false" THEN Bool(FALSE)
     ELSE Fn(k)]

\* The Go parameter types (reflect.Type.In) of the native functions that the
\* formulas of the model call: builtins of innerMap, and three functions that
\* a host program binds: add is func(ctx context.Context, a string,
\* b *decimal.Big) (string, error), count is func(xs []string) (int, error),
\* tally is func(label string, nums ...*decimal.Big) (int, error).
FuncIn(f) ==
  CASE f = "len" -> <<"string">>
    [] f = "toString" -> <<"any">>
    [] f = "finite" -> <<"any">>
    [] f = "abs" -> <<"decimal">>
    [] f = "year" -> <<"time">>
    [] f = "date" -> <<"int", "int", "int">>
    [] f = "includes" -> <<"[]string", "string">>
    [] f = "max" -> <<"[]decimal">>
    [] f = "add" -> <<"context", "string", "decimal">>
    [] f = "count" -> <<"[]string">>
    [] f = "tally" -> <<"string", "[]decimal">>
    [] f = "mid" -> <<"string", "int", "int">>
    [] f = "endWith" -> <<"string", "string">>

\* reflect.Type.IsVariadic: the last parameter was declared with `...`.
IsVariadic(f) == f \in {"max", "tally"}

IsSliceType(ty) == ty \in {"[]decimal", "[]string"}
ElemType(ty) == IF ty = "[]string" THEN "string" ELSE "decimal"

firstParamIsContext(In) == Len(In) > 0 /\ In[1] = "context"

hasVariadicParameter(In) == Len(In) > 0 /\ IsSliceType(In[Len(In)])

RECURSIVE MaxOf(_, _)
MaxOf(xs, m) ==
  IF Len(xs) = 0 THEN m
  ELSE MaxOf(Tail(xs), IF Cmp(Head(xs), m) > 0 THEN Head(xs) ELSE m)

\* strings.Index: the offset of the first occurrence of substr in s, else -1.
Index(s, substr) ==
  LET at == {i \in 0..(Len(s) - Len(substr)) : SubSeq(s, i + 1, i + Len(substr)) = substr}
  IN IF at = {} THEN -1 ELSE CHOOSE i \in at : \A j \in at : i <= j

\* funMid: the slice expression s[start:end] panics unless
\* 0 <= start <= end <= len(s), the check of end first.
funMid(s, start0, end0) ==
  LET start == IF start0 < 0 THEN 0 ELSE start0
      end == IF end0 > Len(s) THEN Len(s) ELSE end0
  IN IF end < 0
     THEN [ok |-> FALSE, panic |-> TRUE,
           msg |-> "slice bounds out of range [:" \o IntToStr(end) \o "] with length "
                     \o IntToStr(Len(s))]
     ELSE IF start > end
     THEN [ok |-> FALSE, panic |-> TRUE,
           msg |-> "slice bounds out of range [" \o IntToStr(start) \o ":"
                     \o IntToStr(end) \o "]"]
     ELSE [ok |-> TRUE, v |-> Str(SubSeq(s, start + 1, end))]

funEndWith(s, substr) ==
  [ok |-> TRUE, v |-> Bool(Index(s, substr) = Len(s) - Len(substr))]

\* The body of the function on arguments of its parameter types: [ok, v] with
\* its value, or [ok |-> FALSE, msg] with its error. A variadic function gets
\* its variadic arguments at the end of args.
CallNative(f, args) ==
  CASE f = "len" -> [ok |-> TRUE, v |-> GoInt(Len(args[1].s))]
    [] f = "toString" -> [ok |-> TRUE, v |-> Str(convToString(args[1]))]
    [] f = "finite" ->
         [ok |-> TRUE, v |-> IF args[1].t = "num" THEN args[1] ELSE Num(0)]
    [] f = "abs" ->
         [ok |-> TRUE,
          v |-> IF args[1].t = "num" /\ args[1].n < 0 THEN Num(0 - args[1].n) ELSE args[1]]
    [] f = "year" -> [ok |-> TRUE, v |-> GoInt(args[1].y)]
    [] f = "date" -> [ok |-> TRUE, v |-> Time(args[1].n, args[2].n, args[3].n)]
    [] f = "includes" ->
         [ok |-> TRUE, v |-> Bool(\E i \in 1..Len(args[1].xs) : args[1].xs[i] = args[2])]
    [] f = "max" ->
         IF Len(args) = 0 THEN [ok |-> FALSE, msg |-> "please input numbers"]
         ELSE [ok |-> TRUE, v |-> MaxOf(args, args[1])]
    [] f = "add" -> [ok |-> TRUE, v |-> Str(args[2].s \o "," \o IntToStr(args[3].n))]
    [] f = "count" -> [ok |-> TRUE, v |-> GoInt(Len(args[1].xs))]
    [] f = "tally" -> [ok |-> TRUE, v |-> GoInt(Len(args) - 1)]
    [] f = "mid" -> funMid(args[1].s, args[2].n, args[3].n)
    [] f = "endWith" -> funEndWith(args[1].s, args[2].s)

\* reflect.TypeOf of a value that reaches reflect.Value.Call.
GoTypeOf(v) ==
  CASE v.t = "str" -> "string"
    [] v.t \in {"num", "nan"} -> "decimal"
    [] v.t = "nilptr" -> "*T"
    [] v.t = "int" -> "int"
    [] v.t = "bool" -> "bool"
    [] v.t = "time" -> "time"
    [] v.t = "ctx" -> "context"
    [] v.t = "slice" -> v.ty
    [] v.t = "arr" -> "[]any"
    [] v.t = "obj" -> "map[string]any"
    [] v.t = "fn" -> "func"
    [] v.t = "rvzero" -> "reflect.Value"
    [] v.t = "struct" -> "T"

\* reflect.Type.AssignableTo for these types.
AssignableTo(ty, target) == target = "any" \/ ty = target

\* What reflect.Value.Call hands back for the two results, res, of the function.
called(res) ==
  IF res.ok THEN [kind |-> "ok", v |-> res.v]
  ELSE IF "panic" \in DOMAIN res THEN [kind |-> "panic", msg |-> res.msg]
  ELSE [kind |-> "err", msg |-> res.msg]

\* reflect.Value.Call(callArgs) on the function f: it panics when the number
\* of arguments does not fit the signature or an argument is not assignable to
\* its parameter, and else runs the function.
reflectCall(f, callArgs) ==
  LET In == FuncIn(f)
      n == IF IsVariadic(f) THEN Len(In) - 1 ELSE Len(In)
  IN IF Len(callArgs) < n
     THEN [kind |-> "panic", msg |-> "reflect: Call with too few input arguments"]
     ELSE IF ~IsVariadic(f) /\ Len(callArgs) > n
     THEN [kind |-> "panic", msg |-> "reflect: Call with too many input arguments"]
     ELSE IF \E i \in 1..n : ~AssignableTo(GoTypeOf(callArgs[i]), In[i])
     THEN [kind |-> "panic", msg |-> "reflect: Call using a value as another type"]
     ELSE IF \E i \in (n + 1)..Len(callArgs) :
               ~AssignableTo(GoTypeOf(callArgs[i]), ElemType(In[Len(In)]))
     THEN [kind |-> "panic", msg |-> "reflect: cannot use a value as another type in Call"]
     ELSE called(CallNative(f, callArgs))

\* The element loop of convArrayTypeToTarget, into the element type elem.
RECURSIVE convElements(_, _, _)

\* convTypeToTarget for the parameter types above: [kind, v] with kind "ok",
\* "err" for a returned error, or "panic".
convTypeToTarget(source, target) ==
  CASE target = "any" -> [kind |-> "ok", v |-> source]
    [] IsSliceType(target) ->
         \* convArrayTypeToTarget: Type() of the zero reflect.Value panics
         IF source.t = "null" THEN [kind |-> "panic", v |-> Null]
         ELSE IF source.t \notin {"arr", "slice"} THEN [kind |-> "err", v |-> Null]
         ELSE convElements(source.xs, ElemType(target), GoSlice(target, <<>>))
    [] target = "time" ->
         \* convStructToTarget
         IF source.t = "time" THEN [kind |-> "ok", v |-> source]
         ELSE [kind |-> "err", v |-> Null]
    [] target = "int" ->
         \* convToBasicNumber; int(f) of a NaN is left to the implementation,
         \* and no formula of the model passes a NaN to an integer parameter
         (CASE source.t = "int" -> [kind |-> "ok", v |-> source]
            [] source.t = "num" -> [kind |-> "ok", v |-> GoInt(source.n)]
            [] source.t # "nan" -> [kind |-> "err", v |-> Null])
    [] target = "string" ->
         IF source.t = "str" THEN [kind |-> "ok", v |-> source]
         ELSE IF IsNull(source) THEN [kind |-> "ok", v |-> Str("")]
         ELSE [kind |-> "ok", v |-> Str(convToString(source))]
    [] target = "decimal" ->
         IF source.t \in {"num", "nan"} THEN [kind |-> "ok", v |-> source]
         ELSE [kind |-> "err", v |-> Null]

\* The rest of one round of that loop, evalue the converted element.
convElement(evalue, xs, elem, acc) ==
  IF evalue.kind # "ok" THEN evalue
  ELSE convElements(Tail(xs), elem, GoSlice(acc.ty, Append(acc.xs, evalue.v)))

convElements(xs, elem, acc) ==
  IF Len(xs) = 0 THEN [kind |-> "ok", v |-> acc]
  ELSE convElement(convTypeToTarget(Head(xs), elem), xs, elem, acc)

---------------------------------------------------------------------------
(* The evaluator: Runner.resolve and the resolveXxx methods *)

RECURSIVE resolve(_, _)
RECURSIVE resolveList(_, _, _, _)

\* Runner.SetThisValue, on the Runner's view of memory.
SetThisValueSt(st, key, value) ==
  LET st1 == IF st.this = 0
             THEN [st EXCEPT !.this = st.priv, !.heap[st.priv] = EmptyMap]
             ELSE st
  IN [st1 EXCEPT !.heap[st1.this] = MapPut(@, key, value)]

resolveIdentifier(expr, st) ==
  IF expr.Value \in DOMAIN innerMap THEN Ok(innerMap[expr.Value], st)
  ELSE Ok(MapGet(ThisMap(st), expr.Value), st)

\* getObjectValueFromKey: [kind, v], kind "ok" or "panic". For a struct,
\* FieldByName gives the zero reflect.Value when no field has that name, and
\* Interface() panics on it, as it does on an unexported field; time.Time has
\* unexported fields only.
getObjectValueFromKey(v, key) ==
  IF IsNull(v) THEN [kind |-> "ok", v |-> Null]
  ELSE IF v.t = "obj" THEN [kind |-> "ok", v |-> MapGet(v.m, key)]
  ELSE IF v.t = "struct"
  THEN IF key \in DOMAIN v.m THEN [kind |-> "ok", v |-> v.m[key]]
       ELSE [kind |-> "panic", v |-> Null]
  ELSE IF v.t = "time" THEN [kind |-> "panic", v |-> Null]
  ELSE [kind |-> "ok", v |-> Null]

formatNilValue(v) == IF IsNull(v) THEN Null ELSE v

resolveSelectorExpression(expr, st) ==
  LET r == resolve(expr.Expression, st)
  IN IF r.kind # "ok" THEN r
     ELSE IF IsNull(r.v) /\ expr.Asserted
     THEN Err("value is null, can't access attribute", r.st)
     ELSE LET value == getObjectValueFromKey(r.v, expr.Name.Value)
          IN IF value.kind = "panic"
             THEN Panic("reflect: call of reflect.Value.Interface on zero Value", r.st)
             ELSE Ok(formatNilValue(value.v), r.st)

RECURSIVE resolveCallNamesOk(_)
resolveCallNamesOk(expr) ==
  CASE expr.kind = "SelectorExpression" -> resolveCallNamesOk(expr.Expression)
    [] expr.kind = "Identifier" -> TRUE
    [] OTHER -> FALSE

\* The argument loop of resolveCallExpression and the element loop of
\* resolveArrayLiteralExpression: left to right, stopping at the first failure.
resolveList(es, i, acc, st) ==
  IF i > Len(es) THEN Ok(Arr(acc), st)
  ELSE LET r == resolve(es[i], st)
       IN IF r.kind # "ok" THEN r
          ELSE resolveList(es, i + 1, Append(acc, r.v), r.st)

expandArrayArgument(v) ==
  IF v.t \in {"arr", "slice"} THEN [ok |-> TRUE, xs |-> v.xs]
  ELSE [ok |-> FALSE, xs |-> <<>>]

\* The conversion loop of resolveCallExpression: [kind, args]. A nil result
\* of the conversion is replaced by reflect.ValueOf(reflect.Zero(targetType)),
\* a reflect.Value that holds a reflect.Value.
RECURSIVE convArgs(_, _, _, _, _, _)

\* The rest of one round of the loop, convd the result of convTypeToTarget.
convArg(convd, args, i, In, minArgsCount, hasContextParam, acc) ==
  IF convd.kind # "ok" THEN [kind |-> convd.kind, args |-> acc]
  ELSE convArgs(args, i + 1, In, minArgsCount, hasContextParam,
                Append(acc, IF convd.v = Null THEN [t |-> "rvzero"] ELSE convd.v))

convArgs(args, i, In, minArgsCount, hasContextParam, acc) ==
  IF i >= Len(args) THEN [kind |-> "ok", args |-> acc]
  ELSE LET targetType == IF hasVariadicParameter(In) /\ i >= minArgsCount - 1
                         THEN ElemType(In[Len(In)])
                         ELSE In[i + 1 + hasContextParam]
       IN convArg(convTypeToTarget(args[i + 1], targetType), args, i, In, minArgsCount,
                  hasContextParam, acc)

\* The end of resolveCallExpression, results what reflect.Value.Call gave.
callResults(results, st) ==
  IF results.kind = "panic" THEN Panic(results.msg, st)
  ELSE IF results.kind = "err" THEN Err(results.msg, st)
  ELSE Ok(results.v, st)

\* resolveCallExpression after the conversion loop, conv its result.
callConverted(f, conv, hasContextParam, st) ==
  IF conv.kind = "panic" THEN Panic("call of reflect.Value.Type on zero Value", st)
  ELSE IF conv.kind = "err" THEN Err("conv arg error", st)
  ELSE callResults(reflectCall(f, IF hasContextParam = 1 THEN <<Ctx>> \o conv.args
                                  ELSE conv.args), st)

\* resolveCallExpression from reflect.TypeOf(fun) on, with the argument values.
CallFunction(fun, args0, dots, st) ==
  IF fun = Null THEN Panic("nil pointer dereference", st)
  ELSE IF fun.t # "fn" THEN Err("value not is function", st)
  ELSE
    LET In == FuncIn(fun.f)
        hasVariadic == hasVariadicParameter(In)
        hasContextParam == IF firstParamIsContext(In) THEN 1 ELSE 0
        minArgsCount == Len(In) - hasContextParam
        expands == expandArrayArgument(args0[Len(args0)])
        args == IF Len(args0) > 0 /\ dots
                THEN SubSeq(args0, 1, Len(args0) - 1) \o expands.xs
                ELSE args0
    IN IF dots /\ ~hasVariadic THEN Err("not have variadic parammeter", st)
       ELSE IF (~hasVariadic \/ dots) /\ Len(args0) # minArgsCount
       THEN Err("argument count except", st)
       ELSE IF ~(~hasVariadic \/ dots) /\ Len(args0) < minArgsCount - 1
       THEN Err("argument count except greater than or equal", st)
       ELSE IF Len(args0) > 0 /\ dots /\ ~expands.ok THEN Err("can't expand", st)
       ELSE callConverted(fun.f, convArgs(args, 0, In, minArgsCount, hasContextParam, <<>>),
                          hasContextParam, st)

resolveCallExpression(expr, st) ==
  LET fun == resolve(expr.Expression, st)
  IN IF fun.kind # "ok" THEN fun
     ELSE IF ~resolveCallNamesOk(expr.Expression)
     THEN Err("call expression name not support type", fun.st)
     ELSE LET args == resolveList(expr.Arguments, 1, <<>>, fun.st)
          IN IF args.kind # "ok" THEN args
             ELSE CallFunction(fun.v, args.v.xs, expr.DotDotDotToken, args.st)

\* strconv.Atoi on the texts of the model.
Atoi(s) == SetString(s)

\* newDecimalBig().SetUint64(uint64(iv)) of an int64: iv itself, or 2^64 + iv
\* for a negative iv, a decimal that the model writes as the tag "num2p64".
SetUint64(iv) == IF iv >= 0 THEN Num(iv) ELSE [t |-> "num2p64", n |-> iv]

resolvePrefixUnaryExpression(expr, st) ==
  LET r == resolve(expr.Operand, st)
      v == r.v
      op == expr.Operator
  IN IF r.kind # "ok" THEN r
     ELSE
       CASE op = "SK_Plus" ->
              (CASE v.t \in {"num", "nan"} -> Ok(v, r.st)
                 [] v.t = "str" ->
                      IF Atoi(v.s).ok THEN Ok(GoInt(Atoi(v.s).n), r.st) ELSE Ok(F64NaN, r.st)
                 [] v.t = "obj" -> Ok(F64NaN, r.st)
                 [] OTHER -> Err("unary expressin '+' not support type", r.st))
         [] op = "SK_Minus" ->
              (CASE v.t = "num" -> Ok(Num(0 - v.n), r.st)
                 [] v.t = "nan" -> Ok(NaN, r.st)
                 [] v.t = "str" ->
                      IF Atoi(v.s).ok THEN Ok(GoInt(0 - Atoi(v.s).n), r.st) ELSE Ok(F64NaN, r.st)
                 [] v.t = "obj" -> Ok(F64NaN, r.st)
                 [] OTHER -> Err("unary expressin '-' not support type", r.st))
         [] op = "SK_Exclamation" ->
              (CASE v.t = "bool" -> Ok(Bool(~v.b), r.st)
                 [] v.t \in {"num", "nan"} -> Ok(Bool(~toBool(v)), r.st)
                 [] v.t = "null" -> Ok(Bool(TRUE), r.st)
                 [] OTHER -> Err("unary expressin '!' not support type", r.st))
         [] op = "SK_Tilde" ->
              (CASE v.t = "num" -> Ok(SetUint64(v.n), r.st)
                 [] v.t = "nan" -> Ok(Num(0), r.st)
                 [] OTHER -> Err("unary expressin '~' not support type", r.st))
         [] op = "SK_ExclamationExclamation" -> Ok(Bool(toBool(v)), r.st)
         [] OTHER -> Err("unknown unary expression", r.st)

resolveAmpersandAmpersandBinaryExpression(v1, v2) == IF toBool(v1) THEN v2 ELSE v1

resolveBarBarBinaryExpression(v1, v2) == IF ~toBool(v1) THEN v2 ELSE v1

resolveCommaBinaryExpression(v1, v2) == v2

\* decimal.Big Add, Sub and Mul: NaN when an operand is NaN.
Arith(op, n1, n2) ==
  IF n1.t = "nan" \/ n2.t = "nan" THEN NaN
  ELSE CASE op = "SK_Plus" -> Num(n1.n + n2.n)
         [] op = "SK_Minus" -> Num(n1.n - n2.n)
         [] op = "SK_Asterisk" -> Num(n1.n * n2.n)

\* The second switch of resolveBinaryExpression, on the two operand values.
\* The operators of the model: the numeric ones on integers; the relational
\* ones with a left operand that is no string.
BinaryOperation(op, v1, v2, st) ==
  CASE op \in {"SK_LessThan", "SK_GreaterThan", "SK_LessThanEquals", "SK_GreaterThanEquals"}
         /\ v1.t # "str" ->
         LET c == Cmp(convToNumber(v1), convToNumber(v2))
         IN Ok(Bool(CASE op = "SK_LessThan" -> c = -1
                      [] op = "SK_GreaterThan" -> c = 1
                      [] op = "SK_LessThanEquals" -> c <= 0
                      [] op = "SK_GreaterThanEquals" -> c >= 0), st)
    [] op = "SK_Plus" ->
         IF v1.t = "str" THEN Ok(Str(convToString(v1) \o convToString(v2)), st)
         ELSE Ok(Arith(op, convToNumber(v1), convToNumber(v2)), st)
    [] op = "SK_Minus" ->
         IF v1.t = "str" THEN Ok(Str(convToString(v1) \o convToString(v2)), st)
         ELSE Ok(Arith(op, convToNumber(v1), convToNumber(v2)), st)
    [] op = "SK_Asterisk" -> Ok(Arith(op, convToNumber(v1), convToNumber(v2)), st)
    [] op = "SK_EqualsEquals" ->
         IF valueLikeEqualPanics(v1, v2) THEN Panic("comparing uncomparable type", st)
         ELSE Ok(Bool(valueLikeEqualTo(v1, v2)), st)
    [] op = "SK_ExclamationEquals" ->
         IF valueLikeEqualPanics(v1, v2) THEN Panic("comparing uncomparable type", st)
         ELSE Ok(Bool(~valueLikeEqualTo(v1, v2)), st)
    [] op = "SK_EqualsEqualsEquals" ->
         IF valueEqualPanics(v1, v2) THEN Panic("comparing uncomparable type", st)
         ELSE Ok(Bool(valueEqualTo(v1, v2)), st)
    [] op = "SK_ExclamationEqualsEquals" ->
         IF valueEqualPanics(v1, v2) THEN Panic("comparing uncomparable type", st)
         ELSE Ok(Bool(~valueEqualTo(v1, v2)), st)
    [] op = "SK_AmpersandAmpersand" -> Ok(resolveAmpersandAmpersandBinaryExpression(v1, v2), st)
    [] op = "SK_BarBar" -> Ok(resolveBarBarBinaryExpression(v1, v2), st)
    [] op = "SK_Comma" -> Ok(resolveCommaBinaryExpression(v1, v2), st)
    [] op = "SK_QuestionQuestion" -> Ok(Null, st) \* no case of the switch: return nil, nil

\* A target rule that lets every identifier through.
HasAnyPrefix(s) == TRUE

\* strings.HasPrefix(s, "$")
HasDollarPrefix(s) == Len(s) >= 1 /\ CharAt(s, 1) = "$"

resolveEqualBinaryExpression(left, right, st) ==
  IF left.kind # "Identifier"
  THEN Err("assignment expression left expression is not identifier", st)
  ELSE IF ~HasDollarPrefix(left.Value)
  THEN Err("assignment expression left identifier must start of '$'", st)
  ELSE LET v2 == resolve(right, st)
       IN IF v2.kind # "ok" THEN v2
          ELSE Ok(v2.v, SetThisValueSt(v2.st, left.Value, v2.v))

\* A binary operation that resolves its right operand before its left one.
resolveBinaryRightFirst(expr, st) ==
  IF expr.Operator = "SK_Equals"
  THEN resolveEqualBinaryExpression(expr.Left, expr.Right, st)
  ELSE LET v2 == resolve(expr.Right, st)
       IN IF v2.kind # "ok" THEN v2
          ELSE LET v1 == resolve(expr.Left, v2.st)
               IN IF v1.kind # "ok" THEN v1
                  ELSE BinaryOperation(expr.Operator, v1.v, v2.v, v1.st)

resolveBinaryExpression(expr, st) ==
  IF expr.Operator = "SK_Equals"
  THEN resolveEqualBinaryExpression(expr.Left, expr.Right, st)
  ELSE LET v1 == resolve(expr.Left, st)
       IN IF v1.kind # "ok" THEN v1
          ELSE LET v2 == resolve(expr.Right, v1.st)
               IN IF v2.kind # "ok" THEN v2
                  ELSE BinaryOperation(expr.Operator, v1.v, v2.v, v2.st)

resolveArrayLiteralExpression(expr, st) == resolveList(expr.Elements, 1, <<>>, st)

resolveParenthesizedExpression(expr, st) == resolve(expr.Expression, st)

resolveLiteralExpression(expr, st) ==
  CASE expr.Token = "SK_TrueKeyword" -> Ok(Bool(TRUE), st)
    [] expr.Token = "SK_FalseKeyword" -> Ok(Bool(FALSE), st)
    [] expr.Token = "SK_NullKeyword" -> Ok(Null, st)
    [] expr.Token = "SK_ThisKeyword" -> Ok(Obj(ThisMap(st)), st)
    [] expr.Token = "SK_CtxKeyword" -> Ok([t |-> "ctx"], st)
    [] expr.Token = "SK_NumberLiteral" ->
         IF SetString(expr.Value).ok THEN Ok(Num(SetString(expr.Value).n), st)
         ELSE Err("not number literal", st)
    [] expr.Token = "SK_StringLiteral" -> Ok(Str(expr.Value), st)
    [] OTHER -> Err("unknown liternal expression", st)

\* A conditional that takes its first branch only on the Bool true.
resolveConditionalOnTrue(expr, st) ==
  LET cond == resolve(expr.Condition, st)
  IN IF cond.kind # "ok" THEN cond
     ELSE IF cond.v = Bool(TRUE) THEN resolve(expr.WhenTrue, cond.st)
     ELSE resolve(expr.WhenFalse, cond.st)

resolveConditionalExpression(expr, st) ==
  LET cond == resolve(expr.Condition, st)
  IN IF cond.kind # "ok" THEN cond
     ELSE IF toBool(cond.v) THEN resolve(expr.WhenTrue, cond.st)
     ELSE resolve(expr.WhenFalse, cond.st)

resolveTypeofExpression(expr, st) ==
  LET value == resolve(expr.Expression, st)
  IN IF value.kind # "ok" THEN value
     ELSE Ok(Str(CASE value.v.t = "bool" -> "boolean"
                   [] value.v.t = "str" -> "string"
                   [] value.v.t \in {"num", "nan"} -> "number"
                   [] OTHER -> "object"), value.st)

resolve(v, st) ==
  LET r == CASE v.kind = "Identifier" -> resolveIdentifier(v, st)
             [] v.kind = "PrefixUnaryExpression" -> resolvePrefixUnaryExpression(v, st)
             [] v.kind = "BinaryExpression" -> resolveBinaryExpression(v, st)
             [] v.kind = "ArrayLiteralExpression" -> resolveArrayLiteralExpression(v, st)
             [] v.kind = "ParenthesizedExpression" -> resolveParenthesizedExpression(v, st)
             [] v.kind = "LiteralExpression" -> resolveLiteralExpression(v, st)
             [] v.kind = "SelectorExpression" -> resolveSelectorExpression(v, st)
             [] v.kind = "CallExpression" -> resolveCallExpression(v, st)
             [] v.kind = "ConditionalExpression" -> resolveConditionalExpression(v, st)
             [] v.kind = "TypeOfExpression" -> resolveTypeofExpression(v, st)
             [] OTHER -> Err("unknown expression type", st)
  IN IF r.kind = "ok" THEN Ok(formatInput(r.v), r.st) ELSE r

\* Runner.Resolve: the value as the caller receives it.
ResolveSt(v, st) ==
  LET res == resolve(v, st)
  IN IF res.kind = "ok" THEN Ok(try2Float64(res.v), res.st) ELSE res

---------------------------------------------------------------------------
(* Formulas: the syntax trees ParseSourceCode builds for these texts *)

Id(name) == Identifier(name)
NumLit(text) == LiteralExpression("SK_NumberLiteral", text)
StrLit(text) == LiteralExpression("SK_StringLiteral", text)
NullLit == LiteralExpression("SK_NullKeyword", "null")
Bin(l, op, r) == BinaryExpression(l, op, r)
Paren(e) == ParenthesizedExpression(e)
Call(e, args) == CallExpression(e, args, FALSE)

Ast(text) ==
  CASE text = "a && ($t = 1)" ->
         Bin(Id("a"), "SK_AmpersandAmpersand", Paren(Bin(Id("$t"), "SK_Equals", NumLit("1"))))
    [] text = "a || ($t = 1)" ->
         Bin(Id("a"), "SK_BarBar", Paren(Bin(Id("$t"), "SK_Equals", NumLit("1"))))
    [] text = "a && n!.f" ->
         Bin(Id("a"), "SK_AmpersandAmpersand", SelectorExpression(Id("n"), Id("f"), TRUE))
    [] text = "a || n!.f" ->
         Bin(Id("a"), "SK_BarBar", SelectorExpression(Id("n"), Id("f"), TRUE))
    [] text = "a && b" -> Bin(Id("a"), "SK_AmpersandAmpersand", Id("b"))
    [] text = "a || b" -> Bin(Id("a"), "SK_BarBar", Id("b"))
    [] text = "a ?? b" -> Bin(Id("a"), "SK_QuestionQuestion", Id("b"))
    [] text = "a == null" -> Bin(Id("a"), "SK_EqualsEquals", NullLit)
    [] text = "null == a" -> Bin(NullLit, "SK_EqualsEquals", Id("a"))
    [] text = "null == null" -> Bin(NullLit, "SK_EqualsEquals", NullLit)
    [] text = "$x = 3, $x + 4" ->
         Bin(Bin(Id("$x"), "SK_Equals", NumLit("3")), "SK_Comma",
             Bin(Id("$x"), "SK_Plus", NumLit("4")))
    [] text = "$x" -> Id("$x")
    [] text = "$x = 5, $x + 4" ->
         Bin(Bin(Id("$x"), "SK_Equals", NumLit("5")), "SK_Comma",
             Bin(Id("$x"), "SK_Plus", NumLit("4")))
    [] text = "$1 = 1, $2 = 2, $1 + $2" ->
         Bin(Bin(Bin(Id("$1"), "SK_Equals", NumLit("1")), "SK_Comma",
                 Bin(Id("$2"), "SK_Equals", NumLit("2"))), "SK_Comma",
             Bin(Id("$1"), "SK_Plus", Id("$2")))
    [] text = "$x = a" -> Bin(Id("$x"), "SK_Equals", Id("a"))
    [] text = "$x = n!.f" ->
         Bin(Id("$x"), "SK_Equals", SelectorExpression(Id("n"), Id("f"), TRUE))
    [] text = "a = ($t = 1)" ->
         Bin(Id("a"), "SK_Equals", Paren(Bin(Id("$t"), "SK_Equals", NumLit("1"))))
    [] text = "($x) = ($t = 1)" ->
         Bin(Paren(Id("$x")), "SK_Equals", Paren(Bin(Id("$t"), "SK_Equals", NumLit("1"))))
    [] text = "1 = ($t = 1)" ->
         Bin(NumLit("1"), "SK_Equals", Paren(Bin(Id("$t"), "SK_Equals", NumLit("1"))))
    [] text = "a.f = ($t = 1)" ->
         Bin(SelectorExpression(Id("a"), Id("f"), FALSE), "SK_Equals",
             Paren(Bin(Id("$t"), "SK_Equals", NumLit("1"))))
    [] text = "len(a) = ($t = 1)" ->
         Bin(Call(Id("len"), <<Id("a")>>), "SK_Equals",
             Paren(Bin(Id("$t"), "SK_Equals", NumLit("1"))))
    [] text = "a()" -> Call(Id("a"), <<>>)
    [] text = "a($t = 1)" -> Call(Id("a"), <<Bin(Id("$t"), "SK_Equals", NumLit("1"))>>)
    [] text = "(a)()" -> Call(Paren(Id("a")), <<>>)
    [] text = "len(a)" -> Call(Id("len"), <<Id("a")>>)
    [] text = "max(1, a)" -> Call(Id("max"), <<NumLit("1"), Id("a")>>)
    [] text = "a === b" -> Bin(Id("a"), "SK_EqualsEqualsEquals", Id("b"))
    [] text = "a !== b" -> Bin(Id("a"), "SK_ExclamationEqualsEquals", Id("b"))
    [] text = "0 === null" -> Bin(NumLit("0"), "SK_EqualsEqualsEquals", NullLit)
    [] text = "v === 'x'" -> Bin(Id("v"), "SK_EqualsEqualsEquals", StrLit("x"))
    [] text = "($t = 1) + $t" ->
         Bin(Paren(Bin(Id("$t"), "SK_Equals", NumLit("1"))), "SK_Plus", Id("$t"))
    [] text = "$u + ($u = 1)" ->
         Bin(Id("$u"), "SK_Plus", Paren(Bin(Id("$u"), "SK_Equals", NumLit("1"))))
    [] text = "n!.f + ($v = 1)" ->
         Bin(SelectorExpression(Id("n"), Id("f"), TRUE), "SK_Plus",
             Paren(Bin(Id("$v"), "SK_Equals", NumLit("1"))))
    [] text = "[$w = a, n!.f, $v = 2]" ->
         ArrayLiteralExpression(<<Bin(Id("$w"), "SK_Equals", Id("a")),
                                  SelectorExpression(Id("n"), Id("f"), TRUE),
                                  Bin(Id("$v"), "SK_Equals", NumLit("2"))>>)
    [] text = "[$w = a, $w]" ->
         ArrayLiteralExpression(<<Bin(Id("$w"), "SK_Equals", Id("a")), Id("$w")>>)
    [] text = "max($w = a, n!.f, $v = 3)" ->
         Call(Id("max"), <<Bin(Id("$w"), "SK_Equals", Id("a")),
                           SelectorExpression(Id("n"), Id("f"), TRUE),
                           Bin(Id("$v"), "SK_Equals", NumLit("3"))>>)
    [] text = "c ? 'a' : 'b'" -> ConditionalExpression(Id("c"), StrLit("a"), StrLit("b"))
    [] text = "c ? ($t = 1) : ($u = 2)" ->
         ConditionalExpression(Id("c"), Paren(Bin(Id("$t"), "SK_Equals", NumLit("1"))),
                               Paren(Bin(Id("$u"), "SK_Equals", NumLit("2"))))
    [] text = "c ? n!.f : 1" ->
         ConditionalExpression(Id("c"), SelectorExpression(Id("n"), Id("f"), TRUE),
                               NumLit("1"))
    [] text = "c ? 1 : n!.f" ->
         ConditionalExpression(Id("c"), NumLit("1"),
                               SelectorExpression(Id("n"), Id("f"), TRUE))
    [] text = "~a" -> PrefixUnaryExpression("SK_Tilde", Id("a"))
    [] text = "!a" -> PrefixUnaryExpression("SK_Exclamation", Id("a"))
    [] text = "!!a" -> PrefixUnaryExpression("SK_ExclamationExclamation", Id("a"))
    [] text = "f()" -> Call(Id("f"), <<>>)
    [] text = "f('a')" -> Call(Id("f"), <<StrLit("a")>>)
    [] text = "f('a', 1)" -> Call(Id("f"), <<StrLit("a"), NumLit("1")>>)
    [] text = "f('a', 1, 2)" -> Call(Id("f"), <<StrLit("a"), NumLit("1"), NumLit("2")>>)
    [] text = "f(1, 1, 1)" -> Call(Id("f"), <<NumLit("1"), NumLit("1"), NumLit("1")>>)
    [] text = "f(1, 1, 1, 1)" ->
         Call(Id("f"), <<NumLit("1"), NumLit("1"), NumLit("1"), NumLit("1")>>)
    [] text = "len(a)" -> Call(Id("len"), <<Id("a")>>)
    [] text = "abs(a)" -> Call(Id("abs"), <<Id("a")>>)
    [] text = "finite(a)" -> Call(Id("finite"), <<Id("a")>>)
    [] text = "year(a)" -> Call(Id("year"), <<Id("a")>>)
    [] text = "date(a, 1, 1)" -> Call(Id("date"), <<Id("a"), NumLit("1"), NumLit("1")>>)
    [] text = "includes(a, 'x')" -> Call(Id("includes"), <<Id("a"), StrLit("x")>>)
    [] text = "f(xs...)" -> CallExpression(Id("f"), <<Id("xs")>>, TRUE)
    [] text = "a.f" -> SelectorExpression(Id("a"), Id("f"), FALSE)
    [] text = "a.g" -> SelectorExpression(Id("a"), Id("g"), FALSE)
    [] text = "a!.f" -> SelectorExpression(Id("a"), Id("f"), TRUE)
    [] text = "a!.g" -> SelectorExpression(Id("a"), Id("g"), TRUE)
    [] text = "a == b" -> Bin(Id("a"), "SK_EqualsEquals", Id("b"))
    [] text = "b == a" -> Bin(Id("b"), "SK_EqualsEquals", Id("a"))
    [] text = "a != b" -> Bin(Id("a"), "SK_ExclamationEquals", Id("b"))
    [] text = "b != a" -> Bin(Id("b"), "SK_ExclamationEquals", Id("a"))
    [] text = "mid(s, start, end)" -> Call(Id("mid"), <<Id("s"), Id("start"), Id("end")>>)
    [] text = "endWith(s, sub)" -> Call(Id("endWith"), <<Id("s"), Id("sub")>>)
    [] text = "f(1, xs...)" -> CallExpression(Id("f"), <<NumLit("1"), Id("xs")>>, TRUE)
    [] text = "f('a', xs...)" -> CallExpression(Id("f"), <<StrLit("a"), Id("xs")>>, TRUE)

---------------------------------------------------------------------------
(* The host programs *)

Scenarios == {"logic", "nullish", "temp", "call"}

\* Further host programs, one per operation of the evaluator they exercise.
EvalScenarios == {"strict", "ternary", "order", "unary", "loose"}

\* The host programs that call native functions and select members.
CallScenarios == {"arity", "spread", "nullarg", "member", "mid", "suffix"}

\* The native functions they call.
Natives ==
  {"len", "toString", "finite", "abs", "year", "date", "includes", "max", "add", "count",
   "tally"}

\* The formulas a host program evaluates.
Formulas(sc) ==
  CASE sc = "logic" ->
         {"a && ($t = 1)", "a || ($t = 1)", "a && n!.f", "a || n!.f", "a && b", "a || b"}
    [] sc = "nullish" -> {"a ?? b", "a == null", "null == a", "null == null"}
    [] sc = "temp" ->
         {"$x = 3, $x + 4", "$x", "$1 = 1, $2 = 2, $1 + $2", "$x = a", "$x = n!.f",
          "a = ($t = 1)", "($x) = ($t = 1)", "1 = ($t = 1)", "a.f = ($t = 1)",
          "len(a) = ($t = 1)"}
    [] sc = "call" -> {"a()", "a($t = 1)", "(a)()", "len(a)", "max(1, a)"}
    [] sc = "strict" -> {"a === b", "a !== b", "0 === null", "v === 'x'"}
    [] sc = "unary" -> {"~a", "!a", "!!a"}
    [] sc = "loose" -> {"a == b", "b == a", "a != b", "b != a"}
    [] sc = "order" ->
         {"($t = 1) + $t", "$u + ($u = 1)", "n!.f + ($v = 1)", "[$w = a, n!.f, $v = 2]",
          "[$w = a, $w]", "max($w = a, n!.f, $v = 3)"}
    [] sc = "ternary" ->
         {"c ? 'a' : 'b'", "c ? ($t = 1) : ($u = 2)", "c ? n!.f : 1", "c ? 1 : n!.f"}
    [] sc = "arity" ->
         {"f()", "f('a')", "f('a', 1)", "f('a', 1, 2)", "f(1, 1, 1)", "f(1, 1, 1, 1)"}
    [] sc = "spread" -> {"f(xs...)", "f(1, xs...)", "f('a', xs...)"}
    [] sc = "member" -> {"a.f", "a.g", "a!.f", "a!.g"}
    [] sc = "mid" -> {"mid(s, start, end)"}
    [] sc = "suffix" -> {"endWith(s, sub)"}
    [] sc = "nullarg" ->
         {"len(a)", "abs(a)", "finite(a)", "year(a)", "date(a, 1, 1)", "includes(a, 'x')"}

\* The keys it binds with SetThisValue.
HostKeys(sc) ==
  CASE sc \in {"logic", "nullish", "strict", "loose"} -> {"a", "b"}
    [] sc = "ternary" -> {"c"}
    [] sc = "arity" -> {"f"}
    [] sc = "spread" -> {"f", "xs"}
    [] sc = "mid" -> {"s", "start", "end"}
    [] sc = "suffix" -> {"s", "sub"}
    [] OTHER -> {"a"}

\* The Go values it binds them to.
HostValues(sc) ==
  CASE sc = "logic" -> {Null, Bool(FALSE), Bool(TRUE), GoInt(0), Str("hello")}
    [] sc = "nullish" ->
         {Null, Bool(FALSE), GoInt(0), GoInt(1), Str(""), Str("<nil>"), F64NaN}
    [] sc = "temp" -> {Null, GoInt(5)}
    [] sc = "loose" ->
         {Null, Bool(FALSE), Bool(TRUE), GoInt(0), GoInt(1), Str(""), Str("1"), Str("01"),
          Str("true")}
    [] sc = "call" -> {Null, GoInt(2), Str("ab"), Fn("toString")}
    [] sc = "unary" ->
         {Null, Bool(FALSE), Bool(TRUE), GoInt(0), GoInt(1), GoInt(5), GoInt(-1), GoInt(-6),
          Str(""), Str("abc"), Arr(<<>>), Obj(EmptyMap)}
    [] sc = "strict" ->
         {Null, NilPtr, Bool(FALSE), GoInt(0), GoInt(1), Str(""), Str("x"), Arr(<<>>),
          Obj(EmptyMap)}
    [] sc = "order" -> {Null, GoInt(5), Str("x")}
    [] sc = "ternary" ->
         {Null, Bool(FALSE), Bool(TRUE), GoInt(0), GoInt(2), F64NaN, Str(""), Str("x"),
          Obj(EmptyMap)}
    [] sc = "arity" -> {Fn(g) : g \in Natives}
    [] sc = "mid" ->
         {Str(""), Str("abc"), GoInt(-2), GoInt(-1), GoInt(0), GoInt(1), GoInt(2), GoInt(3),
          GoInt(5)}
    [] sc = "suffix" ->
         {Str(""), Str("a"), Str("b"), Str("ab"), Str("ba"), Str("bc"), Str("abab"),
          Str("abc")}
    [] sc = "member" ->
         {Null, NilPtr, Obj(EmptyMap), Obj([k \in {"f"} |-> GoInt(1)]),
          Struct([k \in {"f"} |-> GoInt(1)]), Time(2024, 1, 1), Str("x"), GoInt(2),
          Arr(<<>>)}
    [] sc = "nullarg" -> {Null, GoInt(2), Str("x"), Arr(<<Str("x")>>), Time(2024, 1, 1)}
    [] sc = "spread" ->
         {Fn(g) : g \in {"max", "tally", "len", "add", "count"}} \cup
         {Null, GoInt(2), Arr(<<>>), Arr(<<Num(2), Num(3)>>), Arr(<<Str("a"), Num(2)>>)}

\* The answers of decimal.Big.Cmp on a NaN that a host program can meet: only
\* "nullish" and "ternary" bind a NaN, and "loose" compares a number with a
\* text that is none.
NanAnswers(sc) == IF sc \in {"nullish", "ternary", "loose"} THEN {-1, 0, 1} ELSE {0}

---------------------------------------------------------------------------
(* The Runner API, called by one host goroutine *)

Runners == {1, 2}

\* The map the host program owns and hands to SetThis.
HostMap == 1

\* The map SetThisValue makes for Runner r when r.this is nil.
Priv(r) == 1 + r

Refs == {HostMap} \cup {Priv(r) : r \in Runners}

\* The Runner the sequential host program uses.
Main == 1

View(r) == [heap |-> heap, this |-> this[r], priv |-> Priv(r)]

\* What the caller of Resolve gets: the value, the error, or the panic.
Outcome(out) ==
  IF out.kind = "ok" THEN [kind |-> "ok", v |-> out.v]
  ELSE [kind |-> out.kind, msg |-> out.msg]

\* The formula of the latest call, "" when that was no Resolve.
Called == IF last.op = "Resolve" THEN last.f ELSE ""

Idle == [r \in Runners |-> [pc |-> "idle"]]

InitRunner ==
  /\ heap = [m \in Refs |-> EmptyMap]
  /\ this = [r \in Runners |-> 0]
  /\ last = [op |-> "NewRunner"]
  /\ prev = ""
  /\ proc = Idle
  /\ race = FALSE
  /\ src = ""
  /\ parsed = [kind |-> "none"]

Init ==
  /\ InitRunner
  /\ scen \in Scenarios
  /\ nanCmp \in NanAnswers(scen)

\* A SetThis that leaves a Runner that has bindings with them.
SetThisOnce(r, m) ==
  /\ this' = [this EXCEPT ![r] = IF this[r] = 0 THEN m ELSE this[r]]
  /\ heap' = heap
  /\ last' = [op |-> "SetThis"]
  /\ prev' = Called
  /\ UNCHANGED <<nanCmp, proc, race, scen, src, parsed>>

\* r.SetThis(m), m the host's map or nil. A map r made for itself is
\* unreachable afterwards and is collected.
SetThis(r, m) ==
  /\ this' = [this EXCEPT ![r] = m]
  /\ heap' = IF this[r] = Priv(r) THEN [heap EXCEPT ![Priv(r)] = EmptyMap] ELSE heap
  /\ last' = [op |-> "SetThis"]
  /\ prev' = Called
  /\ UNCHANGED <<nanCmp, proc, race, scen, src, parsed>>

\* r.SetThisValue(key, value)
SetThisValue(r, key, value) ==
  LET st == SetThisValueSt(View(r), key, value)
  IN /\ heap' = st.heap
     /\ this' = [this EXCEPT ![r] = st.this]
     /\ last' = [op |-> "SetThisValue"]
     /\ prev' = Called
     /\ UNCHANGED <<nanCmp, proc, race, scen, src, parsed>>

\* A Resolve whose bindings end with the call.
ResolveScoped(r, f) ==
  LET out == ResolveSt(Ast(f), View(r))
  IN /\ last' = [op |-> "Resolve", f |-> f, out |-> Outcome(out)]
     /\ prev' = Called
     /\ UNCHANGED <<heap, this, nanCmp, proc, race, scen, src, parsed>>

\* r.Resolve(ctx, v), v the tree of the formula text f.
Resolve(r, f) ==
  LET out == ResolveSt(Ast(f), View(r))
  IN /\ heap' = out.st.heap
     /\ this' = [this EXCEPT ![r] = out.st.this]
     /\ last' = [op |-> "Resolve", f |-> f, out |-> Outcome(out)]
     /\ prev' = Called
     /\ UNCHANGED <<nanCmp, proc, race, scen, src, parsed>>

Next ==
  \/ SetThis(Main, HostMap)
  \/ \E key \in HostKeys(scen), value \in HostValues(scen) : SetThisValue(Main, key, value)
  \/ \E f \in Formulas(scen) : Resolve(Main, f)

Spec == Init /\ [][Next]_vars

InitEval ==
  /\ InitRunner
  /\ scen \in EvalScenarios
  /\ nanCmp \in NanAnswers(scen)

SpecEval == InitEval /\ [][Next]_vars

InitCall ==
  /\ InitRunner
  /\ scen \in CallScenarios
  /\ nanCmp \in NanAnswers(scen)

SpecCall == InitCall /\ [][Next]_vars

---------------------------------------------------------------------------
(* Properties of the Runner API *)

\* What the key k is bound to in the Runner's this.
Bound(k) == MapGet(ThisMap(View(Main)), k)

\* What Resolve hands back for a formula whose value is the binding of k.
ValOut(k) == [kind |-> "ok", v |-> try2Float64(formatInput(Bound(k)))]

\* Truthiness of the binding of k.
Truthy(k) == toBool(formatInput(Bound(k)))

\* This step is a Resolve of the formula f.
ResolveStep(f) == last'.op = "Resolve" /\ last'.f = f

\* The latest call was a Resolve of the formula f.
Resolved(f) == last.op = "Resolve" /\ last.f = f

\* C1: short-circuit. In `a && b` with a falsy, b is not evaluated: no `$`
\* assignment inside b takes effect, no error of b is returned, and the result
\* is a's own value; the same for `a || b` with a truthy. When a does not
\* decide, the result is b's own value.
C1_ShortCircuit ==
  [][/\ \A f \in {"a && ($t = 1)", "a && n!.f", "a && b"} :
          ResolveStep(f) =>
            IF ~Truthy("a")
            THEN /\ UNCHANGED <<heap, this>>
                 /\ last'.out = ValOut("a")
            ELSE f = "a && b" => last'.out = ValOut("b")
     /\ \A f \in {"a || ($t = 1)", "a || n!.f", "a || b"} :
          ResolveStep(f) =>
            IF Truthy("a")
            THEN /\ UNCHANGED <<heap, this>>
                 /\ last'.out = ValOut("a")
            ELSE f = "a || b" => last'.out = ValOut("b")]_vars

\* C2: nullish coalescing. `a ?? b` is the value of a whenever a is not Null
\* (false, 0 and the empty string included) and the value of b exactly when a
\* is Null.
C2_NullishCoalescing ==
  Resolved("a ?? b") =>
    last.out = IF IsNull(Bound("a")) THEN ValOut("b") ELSE ValOut("a")

\* C3: loose equality and Null. `null == null` is true, and for every non-Null
\* v (0, false and the empty string included) `v == null` and `null == v` are
\* false.
C3_NullLooseEquality ==
  /\ Resolved("null == null") => last.out = [kind |-> "ok", v |-> Bool(TRUE)]
  /\ \A f \in {"a == null", "null == a"} :
       Resolved(f) => last.out = [kind |-> "ok", v |-> Bool(IsNull(Bound("a")))]

\* C4: Resolve does not mutate host data. For every formula, `$x = ...`
\* assignments included, the map the host passed to SetThis has the same keys
\* and values after Resolve as before.
C4_HostMapUnchanged ==
  [][\A f \in Formulas(scen) : ResolveStep(f) => heap'[HostMap] = heap[HostMap]]_vars

\* C6: temporaries outlive one evaluation. After `$x = 3, $x + 4` returned 7,
\* `$x` is bound to 3 and a following Resolve of `$x` on the same Runner
\* returns 3; within one formula `$1=1,$2=2,$1+$2` yields 3.
C6_TemporariesPersist ==
  /\ Resolved("$x = 3, $x + 4") =>
       /\ last.out = [kind |-> "ok", v |-> F64(7)]
       /\ Bound("$x") = Num(3)
  /\ Resolved("$x") /\ prev = "$x = 3, $x + 4" =>
       last.out = [kind |-> "ok", v |-> F64(3)]
  /\ Resolved("$1 = 1, $2 = 2, $1 + $2") => last.out = [kind |-> "ok", v |-> F64(3)]

\* `$x` was resolved right after `$x = 3, $x + 4` and gave a value.
C6_Witness ==
  /\ Resolved("$x")
  /\ prev = "$x = 3, $x + 4"
  /\ last.out.kind = "ok"
  /\ "$x" \in DOMAIN ThisMap(View(Main))

\* The assignments of the model whose left-hand side is no `$` identifier.
BadTargets ==
  {"a = ($t = 1)", "($x) = ($t = 1)", "1 = ($t = 1)", "a.f = ($t = 1)", "len(a) = ($t = 1)"}

\* C7: assignment target rule. With a `$` identifier on the left, the right
\* side is evaluated, the name is bound to that value and the value is the
\* result. With any other left-hand side (non-`$` identifier, selector,
\* literal, call, parenthesized name) Resolve returns an error, binds nothing
\* and does not evaluate the right side.
C7_AssignmentTarget ==
  [][/\ \A f \in BadTargets :
          ResolveStep(f) => last'.out.kind = "err" /\ UNCHANGED <<heap, this>>
     /\ ResolveStep("$x = a") =>
          /\ last'.out = ValOut("a")
          /\ Bound("$x")' = formatInput(Bound("a"))
          /\ "$x" \in DOMAIN ThisMap(View(Main))']_vars

\* An assignment to a non-`$` name was refused while `a` was bound and its
\* right side left `$t` unbound.
C7_Witness ==
  /\ Resolved("a = ($t = 1)")
  /\ last.out.kind = "err"
  /\ ~IsNull(Bound("a"))
  /\ "$t" \notin DOMAIN ThisMap(View(Main))

\* C8: not-callable is an error value. A call whose callee is not a function,
\* Null from an unbound name included, makes Resolve return an error: it never
\* panics and never returns a value.
C8_NotCallableIsError ==
  \A f \in {"a()", "a($t = 1)", "(a)()"} :
    Resolved(f) /\ Bound("a").t # "fn" => last.out.kind = "err"

---------------------------------------------------------------------------
(* Two Runners, each called by its own goroutine, with no synchronization  *)
(* between the two. A Resolve runs operand by operand of its top-level     *)
(* comma operators; each operand of the formulas below reads or writes     *)
(* r.this at most once, so each step is one access to the map.             *)

ParFormulas == {"$x = 3, $x + 4", "$x = 5, $x + 4", "$x"}

\* The operands of the top-level comma operators of e, in evaluation order.
RECURSIVE CommaOperands(_)
CommaOperands(e) ==
  IF e.kind = "BinaryExpression" /\ e.Operator = "SK_Comma"
  THEN CommaOperands(e.Left) \o <<e.Right>>
  ELSE <<e>>

\* How evaluating e touches the map r.this: "w" through SetThisValue, "r"
\* through resolveIdentifier.
RECURSIVE Accesses(_)
Accesses(e) ==
  CASE e.kind = "Identifier" -> IF e.Value \in DOMAIN innerMap THEN {} ELSE {"r"}
    [] e.kind = "BinaryExpression" ->
         IF e.Operator = "SK_Equals" THEN {"w"} \cup Accesses(e.Right)
         ELSE Accesses(e.Left) \cup Accesses(e.Right)
    [] e.kind = "ParenthesizedExpression" -> Accesses(e.Expression)
    [] OTHER -> {}

\* Two accesses to one map conflict when one of them writes.
Conflict(x, y) == x.map = y.map /\ "w" \in {x.mode, y.mode}

InitPar ==
  /\ InitRunner
  /\ scen = "par"
  /\ nanCmp = 0

\* The host hands its map to Runner r, which is not evaluating.
ParSetThis(r) ==
  /\ proc[r].pc # "run"
  /\ this[r] # HostMap
  /\ SetThis(r, HostMap)

\* The goroutine of Runner r calls r.Resolve on the formula f. alone is what
\* the call returns when nothing else runs until it returns.
Begin(r, f) ==
  /\ proc[r].pc # "run"
  /\ proc' = [proc EXCEPT ![r] =
                [pc |-> "run", f |-> f, i |-> 1, acc |-> {},
                 alone |-> Outcome(ResolveSt(Ast(f), View(r)))]]
  /\ UNCHANGED <<heap, this, last, prev, nanCmp, race, scen, src, parsed>>

\* The call of Runner r evaluates its next comma operand; after the last one,
\* or at an error, it returns.
Step(r) ==
  /\ proc[r].pc = "run"
  /\ LET segs == CommaOperands(Ast(proc[r].f))
         out == resolve(segs[proc[r].i], View(r))
         mine == IF out.st.this = 0 THEN {}
                 ELSE {[map |-> out.st.this, mode |-> a] : a \in Accesses(segs[proc[r].i])}
         over == out.kind # "ok" \/ proc[r].i = Len(segs)
     IN /\ heap' = out.st.heap
        /\ this' = [this EXCEPT ![r] = out.st.this]
        /\ race' = (race \/ \E q \in Runners \ {r} :
                              /\ proc[q].pc = "run"
                              /\ \E x \in mine, y \in proc[q].acc : Conflict(x, y))
        /\ proc' = [proc EXCEPT ![r] =
                      IF over
                      THEN [pc |-> "done", f |-> proc[r].f, alone |-> proc[r].alone,
                            out |-> Outcome(IF out.kind = "ok"
                                            THEN Ok(try2Float64(out.v), out.st) ELSE out)]
                      ELSE [@ EXCEPT !.i = @ + 1, !.acc = @ \cup mine]]
  /\ UNCHANGED <<last, prev, nanCmp, scen, src, parsed>>

NextPar ==
  \/ \E r \in Runners : ParSetThis(r)
  \/ \E r \in Runners, f \in ParFormulas : Begin(r, f)
  \/ \E r \in Runners : Step(r)

SpecPar == InitPar /\ [][NextPar]_vars

\* C5: distinct Runners may be evaluated in parallel without coordination.
\* Under every interleaving of two Resolve calls on two Runners, no
\* unsynchronized write/read of shared state occurs and each call returns
\* what it would return if run alone, also when both Runners received the
\* same map through SetThis and their formulas assign `$` temporaries.
C5_ParallelRunners ==
  /\ ~race
  /\ \A r \in Runners : proc[r].pc = "done" => proc[r].out = proc[r].alone

---------------------------------------------------------------------------
(* The scanner. The source text is ASCII: every rune is one byte. The      *)
(* state p is the Parser with its Scanner: text, pos, end, startPos,       *)
(* tokenPos, token, tokenValue, tokenFlags, parseDiagnostics; panic is     *)
(* the value of a panic that is unwinding ("" when none); stuck says that  *)
(* a loop came round without having moved.                                 *)

LowerLetters ==
  {"a", "b", "c", "d", "e", "f", "g", "h", "i", "j", "k", "l", "m", "n", "o", "p",
   "q", "r", "s", "t", "u", "v", "w", "x", "y", "z"}

UpperLetters ==
  {"A", "B", "C", "D", "E", "F", "G", "H", "I", "J", "K", "L", "M", "N", "O", "P",
   "Q", "R", "S", "T", "U", "V", "W", "X", "Y", "Z"}

DigitChars == {"0", "1", "2", "3", "4", "5", "6", "7", "8", "9"}

IsDigit(ch) == ch \in DigitChars

IsIdentifierStart(ch) == ch \in UpperLetters \cup LowerLetters \cup {"$", "_"}

IsIdentifierPart(ch) == ch \in UpperLetters \cup LowerLetters \cup DigitChars \cup {"$", "_"}

IsLineBreak(ch) == ch \in {"\r", "\n"}

IsWhiteSpace(ch) == ch \in {" ", "\t"}

\* s.text[from:to]
Slice(text, from, to) == SubSeq(text, from + 1, to)

\* The rune at byte offset i, "" past the end.
RuneAt(p, i) == IF i < p.end THEN CharAt(p.text, i + 1) ELSE ""

\* panic(msg): the first panic is the one that unwinds.
Raise(p, msg) == IF p.panic # "" THEN p ELSE [p EXCEPT !.panic = msg]

\* The diagnostic messages: code and text. A message is named as in the
\* source; M_0_expected comes with its argument filled in.
DiagnosticMessages ==
  [M_Invalid_character |-> [Code |-> 1127, Message |-> "invalid character"],
   M_Digit_expected |-> [Code |-> 1124, Message |-> "digit expected"],
   M_Identifier_expected |-> [Code |-> 1003, Message |-> "identifier expected"],
   M_Hexadecimal_digit_expected |-> [Code |-> 1125, Message |-> "hexadecimal digit expected"],
   M_Expression_expected |-> [Code |-> 1109, Message |-> "expression excepted"],
   M_Argument_expression_expected |->
     [Code |-> 1135, Message |-> "argument expression expected"],
   M_Expression_or_comma_expected |->
     [Code |-> 1137, Message |-> "expression or comma expected"],
   M_Unexpected_end_of_text |-> [Code |-> 1126, Message |-> "unexpected end of text"],
   M_Unterminated_string_literal |->
     [Code |-> 1002, Message |-> "unterminated string literal"],
   M_Multiple_consecutive_numeric_separators_are_not_permitted |->
     [Code |-> 1301,
      Message |-> "multiple cconsecutive numeric separators are not permitted"],
   M_Numeric_separators_are_not_allowed_here |->
     [Code |-> 1302, Message |-> "numeric separators are not allowed here"],
   M_An_identifier_or_keyword_cannot_immediately_follow_a_numeric_literal |->
     [Code |-> 1302,
      Message |-> "an identifier or keyword cannot immediately follow a numeric literal"],
   M_Trailing_comma_not_allowed |-> [Code |-> 1009, Message |-> "trailing comma not allowed"]]

\* CreateFileDiagnostic once start and length are known not to be negative.
Diagnostic(start, length, message) ==
  IF message \in DOMAIN DiagnosticMessages
  THEN [Start |-> start, Length |-> length, Code |-> DiagnosticMessages[message].Code,
        MessageText |-> DiagnosticMessages[message].Message]
  ELSE [Start |-> start, Length |-> length, Code |-> 1005, MessageText |-> message]

\* The entry points that many functions of the scanner and of the parser
\* call (Scan and its sub-scanners, the two levels of the expression
\* grammar that every nested expression re-enters, and ParseSourceCode
\* itself) are called through Do, defined after them.
RECURSIVE Do(_, _)

\* Parser.errorAtPosition with CreateFileDiagnostic.
errorAtPosition(p, start, length, message) ==
  LET n == Len(p.parseDiagnostics)
  IN IF p.panic # "" THEN p
     ELSE IF n = 0 \/ start # p.parseDiagnostics[n].Start
     THEN IF start < 0 THEN Raise(p, "start must be non-negative")
          ELSE IF length < 0 THEN Raise(p, "length must be non-negative")
          ELSE [p EXCEPT !.parseDiagnostics =
                  Append(@, Diagnostic(start, length, message))]
     ELSE p

\* Parser.scanError, the Scanner's onError.
scanError(p, message, pos, length) ==
  errorAtPosition(p, IF pos = -1 THEN p.pos ELSE pos, length, message)

\* Scanner.error
error(p, msg) == scanError(p, msg, -1, 0)

\* Scanner.errorAtPos
errorAtPos(p, msg, pos, length) == scanError(p, msg, pos, length)

\* Scanner.peekCheck: the offset after the n-th rune from pos when f holds of
\* it, else -1; holds is f of that rune.
peekCheck(p, n, holds) ==
  IF p.pos >= p.end THEN -1
  ELSE IF p.pos + n < p.end /\ holds THEN p.pos + n + 1
  ELSE -1

\* Scanner.peekEqual
peekEqual(p, n, ch) ==
  IF p.pos >= p.end THEN -1
  ELSE IF p.pos + n < p.end /\ RuneAt(p, p.pos + n) = ch THEN p.pos + n + 1
  ELSE -1

\* Scanner.peek: the rune at the absolute offset pos, "" past the end.
peek(p, pos) == IF pos < Len(p.text) THEN CharAt(p.text, pos + 1) ELSE ""

\* The loop of scanNumberFragment; l holds its local variables.
RECURSIVE scanNumberFragmentLoop(_, _)
scanNumberFragmentLoop(p, l) ==
  IF ~(p.pos < p.end) \/ p.panic # "" THEN [p |-> p, l |-> l]
  ELSE LET ch == RuneAt(p, p.pos)
       IN IF ch = "_"
          THEN LET p1 == [p EXCEPT !.tokenFlags = @ \cup {"TF_ContainsSeparator"}]
                   p2 == IF l.allowSeparator THEN p1
                         ELSE IF l.isPreviousTokenSeparator
                         THEN errorAtPos(p1,
                                "M_Multiple_consecutive_numeric_separators_are_not_permitted",
                                p.pos, 1)
                         ELSE errorAtPos(p1, "M_Numeric_separators_are_not_allowed_here",
                                         p.pos, 1)
                   l2 == IF l.allowSeparator
                         THEN [l EXCEPT !.allowSeparator = FALSE,
                                        !.isPreviousTokenSeparator = TRUE,
                                        !.result = @ \o Slice(p.text, l.start, p.pos)]
                         ELSE l
               IN scanNumberFragmentLoop([p2 EXCEPT !.pos = @ + 1],
                                         [l2 EXCEPT !.start = p.pos, !.underlineStart = p.pos])
          ELSE IF IsDigit(ch)
          THEN scanNumberFragmentLoop([p EXCEPT !.pos = @ + 1],
                                      [l EXCEPT !.allowSeparator = TRUE,
                                                !.isPreviousTokenSeparator = FALSE])
          ELSE [p |-> p, l |-> l]

\* Scanner.scanNumberFragment: [p, result]
scanNumberFragment(p) ==
  LET r == scanNumberFragmentLoop(p, [start |-> p.pos, allowSeparator |-> FALSE,
                                      isPreviousTokenSeparator |-> FALSE,
                                      underlineStart |-> 0, result |-> ""])
      p1 == IF r.l.isPreviousTokenSeparator
            THEN errorAtPos(r.p, "M_Numeric_separators_are_not_allowed_here",
                            r.l.underlineStart, 1)
            ELSE r.p
  IN [p |-> p1, result |-> r.l.result \o Slice(p1.text, r.l.start, p1.pos)]

HexChars == DigitChars \cup {"a", "b", "c", "d", "e", "f"}

HexDigitVal(ch) ==
  CASE ch \in DigitChars -> DigitVal(ch)
    [] ch = "a" -> 10 [] ch = "b" -> 11 [] ch = "c" -> 12
    [] ch = "d" -> 13 [] ch = "e" -> 14 [] ch = "f" -> 15

\* strconv.ParseInt(valueString, 16, 64): [ok, value]
RECURSIVE ParseHex(_, _)
ParseHex(valueString, acc) ==
  IF Len(valueString) = 0 THEN [ok |-> TRUE, value |-> acc]
  ELSE IF CharAt(valueString, 1) \notin HexChars THEN [ok |-> FALSE, value |-> 0]
  ELSE ParseHex(SubSeq(valueString, 2, Len(valueString)),
                acc * 16 + HexDigitVal(CharAt(valueString, 1)))

\* ch + ('a' - 'A') for ch in 'A'..'F'
LowerHex(ch) ==
  CASE ch = "A" -> "a" [] ch = "B" -> "b" [] ch = "C" -> "c"
    [] ch = "D" -> "d" [] ch = "E" -> "e" [] ch = "F" -> "f"

\* The loop of scanHexDigits; l holds its local variables.
RECURSIVE scanHexDigitsLoop(_, _, _, _, _)
scanHexDigitsLoop(p, count, scanAsManyAsPossible, canHaveSeparators, l) ==
  IF ~((Len(l.valueChars) < count \/ scanAsManyAsPossible) /\ p.pos < p.end) \/ p.panic # ""
  THEN [p |-> p, l |-> l]
  ELSE LET ch == RuneAt(p, p.pos)
       IN IF canHaveSeparators /\ ch = "_"
          THEN LET p1 == [p EXCEPT !.tokenFlags = @ \cup {"TF_ContainsSeparator"}]
                   p2 == IF l.allowSeparator THEN p1
                         ELSE IF l.isPreviousTokenSeparator
                         THEN errorAtPos(p1,
                                "M_Multiple_consecutive_numeric_separators_are_not_permitted",
                                p.pos, 1)
                         ELSE errorAtPos(p1, "M_Numeric_separators_are_not_allowed_here",
                                         p.pos, 1)
                   l2 == IF l.allowSeparator
                         THEN [l EXCEPT !.allowSeparator = FALSE,
                                        !.isPreviousTokenSeparator = TRUE]
                         ELSE l
               IN scanHexDigitsLoop([p2 EXCEPT !.pos = @ + 1], count, scanAsManyAsPossible,
                                    canHaveSeparators, [l2 EXCEPT !.underlineStart = p.pos])
          ELSE IF ch \in {"A", "B", "C", "D", "E", "F"} \/ ch \in DigitChars \cup LowerLetters
          THEN scanHexDigitsLoop([p EXCEPT !.pos = @ + 1], count, scanAsManyAsPossible,
                                 canHaveSeparators,
                                 [l EXCEPT !.allowSeparator = canHaveSeparators,
                                           !.isPreviousTokenSeparator = FALSE,
                                           !.valueChars =
                                              @ \o (IF ch \in DigitChars \cup LowerLetters
                                                    THEN ch ELSE LowerHex(ch))])
          ELSE [p |-> p, l |-> [l EXCEPT !.allowSeparator = canHaveSeparators]]

\* Scanner.scanHexDigits: [p, result]
scanHexDigits(p, count, scanAsManyAsPossible, canHaveSeparators) ==
  LET r == scanHexDigitsLoop(p, count, scanAsManyAsPossible, canHaveSeparators,
                             [valueChars |-> "", allowSeparator |-> FALSE,
                              underlineStart |-> 0, isPreviousTokenSeparator |-> FALSE])
      p1 == IF r.l.isPreviousTokenSeparator
            THEN errorAtPos(r.p, "M_Numeric_separators_are_not_allowed_here",
                            r.l.underlineStart, 1)
            ELSE r.p
  IN [p |-> p1, result |-> r.l.valueChars]

\* Scanner.scanMinimumNumberOfHexDigits
scanMinimumNumberOfHexDigits(p, count, canHaveSeparators) ==
  scanHexDigits(p, count, TRUE, canHaveSeparators)

\* Scanner.scanExactNumberOfHexDigits: [p, value], value -1 when no digit
\* was there.
scanExactNumberOfHexDigits(p, count, canHaveSeparators) ==
  LET r == scanHexDigits(p, count, FALSE, canHaveSeparators)
  IN IF Len(r.result) > 0
     THEN IF ParseHex(r.result, 0).ok
          THEN [p |-> r.p, value |-> ParseHex(r.result, 0).value]
          ELSE [p |-> Raise(r.p, "parse int error"), value |-> -1]
     ELSE [p |-> r.p, value |-> -1]

\* Scanner.scanHexadecimalEscape: [p, result]
scanHexadecimalEscape(p, numDigits) ==
  LET r == Do("scanExactNumberOfHexDigits", <<p, numDigits, FALSE>>)
  IN IF r.value >= 0 THEN [p |-> r.p, result |-> IntToStr(r.value)]
     ELSE [p |-> error(r.p, "M_Hexadecimal_digit_expected"), result |-> ""]

\* Scanner.scanEscapeSequence: [p, result]. The control characters that TLA+
\* strings cannot hold are written by their Go escapes.
scanEscapeSequence(p0) ==
  LET p == [p0 EXCEPT !.pos = @ + 1]
  IN IF p.pos >= p.end THEN [p |-> error(p, "M_Unexpected_end_of_text"), result |-> ""]
     ELSE LET ch == RuneAt(p, p.pos)
              p1 == [p EXCEPT !.pos = @ + 1]
          IN CASE ch = "0" -> [p |-> p1, result |-> "\\000"]
               [] ch = "b" -> [p |-> p1, result |-> "\\b"]
               [] ch = "t" -> [p |-> p1, result |-> "\t"]
               [] ch = "n" -> [p |-> p1, result |-> "\n"]
               [] ch = "v" -> [p |-> p1, result |-> "\\v"]
               [] ch = "f" -> [p |-> p1, result |-> "\f"]
               [] ch = "r" -> [p |-> p1, result |-> "\r"]
               [] ch = "'" -> [p |-> p1, result |-> "'"]
               [] ch = "\"" -> [p |-> p1, result |-> "\""]
               [] ch = "u" ->
                    scanHexadecimalEscape(
                      [p1 EXCEPT !.tokenFlags = @ \cup {"TF_UnicodeEscape"}], 4)
               [] ch = "x" -> scanHexadecimalEscape(p1, 2)
               [] ch = "\r" ->
                    [p |-> IF peekEqual(p1, 1, "\n") >= 0
                           THEN [p1 EXCEPT !.pos = peekEqual(p1, 1, "\n")] ELSE p1,
                     result |-> ""]
               [] ch = "\n" -> [p |-> p1, result |-> ""]
               [] OTHER -> [p |-> p1, result |-> ch]

\* The loop of scanString: [p, contents]
RECURSIVE scanStringLoop(_, _, _, _)
scanStringLoop(p, quote, start, contents) ==
  IF p.panic # "" THEN [p |-> p, contents |-> contents]
  ELSE IF p.pos >= p.end
  THEN [p |-> error(p, "M_Unexpected_end_of_text"),
        contents |-> contents \o Slice(p.text, start, p.pos)]
  ELSE LET ch == RuneAt(p, p.pos)
       IN IF ch = quote
          THEN [p |-> [p EXCEPT !.pos = @ + 1],
                contents |-> contents \o Slice(p.text, start, p.pos)]
          ELSE IF ch = "\\"
          THEN LET e == Do("scanEscapeSequence", <<p>>)
               IN IF e.p.pos = p.pos
                  THEN [p |-> [e.p EXCEPT !.stuck = TRUE], contents |-> contents]
                  ELSE scanStringLoop(e.p, quote, e.p.pos,
                                      contents \o Slice(p.text, start, p.pos) \o e.result)
          ELSE IF IsLineBreak(ch)
          THEN [p |-> error(p, "M_Unterminated_string_literal"),
                contents |-> contents \o Slice(p.text, start, p.pos)]
          ELSE scanStringLoop([p EXCEPT !.pos = @ + 1], quote, start, contents)

\* Scanner.scanString: [p, contents]
scanString(p) ==
  scanStringLoop([p EXCEPT !.pos = @ + 1], RuneAt(p, p.pos), p.pos + 1, "")

\* Scanner.peekUnicodeEscape: [p, value]. The hex digits are scanned from
\* pos, where the backslash is, and pos is put back.
peekUnicodeEscape(p) ==
  IF p.pos + 5 < p.end /\ peekEqual(p, 1, "u") >= 0
  THEN LET r == Do("scanExactNumberOfHexDigits", <<p, 4, TRUE>>)
       IN [p |-> [r.p EXCEPT !.pos = p.pos], value |-> r.value]
  ELSE [p |-> p, value |-> -1]

\* isIdentifierPart(rune(value)) for the code points of ASCII.
IsIdentifierPartCode(value) ==
  \/ value \in 48..57 \/ value \in 65..90 \/ value \in 97..122
  \/ value = 36 \/ value = 95

\* The loop of scanIdentifierParts: [p, result]; an escaped rune is written
\* "\\u".
RECURSIVE scanIdentifierPartsLoop(_, _, _)
scanIdentifierPartsLoop(p, start, result) ==
  IF ~(p.pos < p.end) \/ p.panic # "" THEN [p |-> p, start |-> start, result |-> result]
  ELSE LET ch == RuneAt(p, p.pos)
       IN IF IsIdentifierPart(ch)
          THEN scanIdentifierPartsLoop([p EXCEPT !.pos = @ + 1], start, result)
          ELSE IF ch = "\\"
          THEN LET u == Do("peekUnicodeEscape", <<p>>)
               IN IF ~(u.value >= 0 /\ IsIdentifierPartCode(u.value))
                  THEN [p |-> u.p, start |-> start, result |-> result]
                  ELSE scanIdentifierPartsLoop(
                         [u.p EXCEPT !.pos = @ + 6], u.p.pos + 6,
                         result \o Slice(p.text, start, p.startPos) \o "\\u")
          ELSE [p |-> p, start |-> start, result |-> result]

\* Scanner.scanIdentifierParts: [p, result]
scanIdentifierParts(p) ==
  LET r == scanIdentifierPartsLoop(p, p.pos, "")
  IN [p |-> r.p, result |-> r.result \o Slice(r.p.text, r.start, r.p.pos)]

\* Scanner.checkForIdentifierStartAfterNumericLiteral
checkForIdentifierStartAfterNumericLiteral(p) ==
  IF ~IsIdentifierStart(peek(p, p.pos)) THEN p
  ELSE LET r == Do("scanIdentifierParts", <<p>>)
           p1 == errorAtPos(
                   r.p,
                   "M_An_identifier_or_keyword_cannot_immediately_follow_a_numeric_literal",
                   p.pos, Len(r.result))
       IN [p1 EXCEPT !.pos = p.pos]

IsExponentMark(ch) == ch \in {"e", "E"}

IsSign(ch) == ch \in {"+", "-"}

\* Scanner.scanNumber: the state with tokenValue set; the token is
\* SK_NumberLiteral.
scanNumber(p) ==
  LET start == p.pos
      main == Do("scanNumberFragment", <<p>>)
      hasDot == peekEqual(main.p, 0, ".") >= 0
      dec == IF hasDot
             THEN Do("scanNumberFragment", <<
                    [main.p EXCEPT !.tokenFlags = @ \cup {"TF_Decimal"},
                                   !.pos = peekEqual(main.p, 0, ".")]>>)
             ELSE [p |-> main.p, result |-> ""]
      end0 == dec.p.pos
      hasExp == peekCheck(dec.p, 0, IsExponentMark(RuneAt(dec.p, dec.p.pos))) >= 0
      pe == [dec.p EXCEPT !.pos = peekCheck(dec.p, 0, IsExponentMark(RuneAt(dec.p, dec.p.pos))),
                          !.tokenFlags = @ \cup {"TF_Scientific"}]
      ps == IF peekCheck(pe, 0, IsSign(RuneAt(pe, pe.pos))) >= 0
            THEN [pe EXCEPT !.pos = peekCheck(pe, 0, IsSign(RuneAt(pe, pe.pos)))] ELSE pe
      preNumericPart == ps.pos
      final == Do("scanNumberFragment", <<ps>>)
      sci == IF hasExp /\ Len(final.result) # 0
             THEN Slice(p.text, end0, preNumericPart) \o final.result ELSE ""
      p3 == IF ~hasExp THEN dec.p
            ELSE IF Len(final.result) = 0 THEN error(final.p, "M_Digit_expected")
            ELSE final.p
      end == IF hasExp /\ Len(final.result) # 0 THEN p3.pos ELSE end0
      result == IF "TF_ContainsSeparator" \in p3.tokenFlags
                THEN main.result
                     \o (IF Len(dec.result) > 0 THEN "." \o dec.result ELSE "")
                     \o (IF Len(sci) > 0 THEN sci ELSE "")
                ELSE Slice(p.text, start, end)
  IN checkForIdentifierStartAfterNumericLiteral([p3 EXCEPT !.tokenValue = result])

\* KeywordFromString
KeywordFromString(text) ==
  CASE text = "true" -> "SK_TrueKeyword"
    [] text = "false" -> "SK_FalseKeyword"
    [] text = "null" -> "SK_NullKeyword"
    [] text = "this" -> "SK_ThisKeyword"
    [] text = "ctx" -> "SK_CtxKeyword"
    [] text = "typeof" -> "SK_TypeofKeyword"
    [] OTHER -> "SK_Unknown"

\* Scanner.getIdentifierToken
getIdentifierToken(p) ==
  LET tok == KeywordFromString(p.tokenValue)
  IN [p EXCEPT !.token = IF tok # "SK_Unknown" THEN tok ELSE "SK_Identifier"]

\* s.pos = pos; s.token = tok; return s.token
Token(p, pos, tok) == [p EXCEPT !.pos = pos, !.token = tok]

\* The tokens of one rune that no longer token begins with.
SingleRuneToken(ch) ==
  CASE ch = "(" -> "SK_OpenParen"
    [] ch = ")" -> "SK_CloseParen"
    [] ch = "%" -> "SK_Percent"
    [] ch = "*" -> "SK_Asterisk"
    [] ch = "+" -> "SK_Plus"
    [] ch = "," -> "SK_Comma"
    [] ch = "-" -> "SK_Minus"
    [] ch = "/" -> "SK_Slash"
    [] ch = ":" -> "SK_Colon"
    [] ch = "[" -> "SK_OpenBracket"
    [] ch = "]" -> "SK_CloseBracket"
    [] ch = "^" -> "SK_Caret"
    [] ch = "~" -> "SK_Tilde"

IsHexMark(ch) == ch \in {"x", "X"}

\* The identifier loop of Scan: s.pos = tar while peekCheck finds a part.
RECURSIVE scanIdentifierRunes(_)
scanIdentifierRunes(p) ==
  IF peekCheck(p, 0, IsIdentifierPart(RuneAt(p, p.pos))) >= 0
  THEN scanIdentifierRunes([p EXCEPT !.pos = peekCheck(p, 0, IsIdentifierPart(RuneAt(p, p.pos)))])
  ELSE p

\* The for loop of Scanner.Scan.
RECURSIVE ScanLoop(_)
ScanLoop(p0) ==
  LET p == [p0 EXCEPT !.tokenPos = p0.pos]
      ch == RuneAt(p, p.pos)
      next == p.pos + 1
  IN IF p.pos >= p.end THEN [p EXCEPT !.token = "SK_EndOfFile"]
     ELSE
       CASE ch \in {"\n", "\r"} ->
              ScanLoop([p EXCEPT !.tokenFlags = @ \cup {"TF_PrecedingLineBreak"},
                                 !.pos = next])
         [] ch \in {"\t", " "} -> ScanLoop([p EXCEPT !.pos = next])
         [] ch = "!" ->
              IF peekEqual(p, 1, "=") >= 0
              THEN IF peekEqual(p, 2, "=") >= 0
                   THEN Token(p, peekEqual(p, 2, "="), "SK_ExclamationEqualsEquals")
                   ELSE Token(p, peekEqual(p, 1, "="), "SK_ExclamationEquals")
              ELSE IF peekEqual(p, 1, "!") >= 0
              THEN Token(p, peekEqual(p, 1, "!"), "SK_ExclamationExclamation")
              ELSE IF peekEqual(p, 1, ".") >= 0
              THEN Token(p, peekEqual(p, 1, "."), "SK_ExclamationDot")
              ELSE Token(p, next, "SK_Exclamation")
         [] ch \in {"\"", "'"} ->
              LET r == Do("scanString", <<p>>)
              IN [r.p EXCEPT !.tokenValue = r.contents, !.token = "SK_StringLiteral"]
         [] ch = "&" ->
              IF peekEqual(p, 1, "&") >= 0
              THEN Token(p, peekEqual(p, 1, "&"), "SK_AmpersandAmpersand")
              ELSE Token(p, next, "SK_Ampersand")
         [] ch \in {"(", ")", "%", "*", "+", ",", "-", "/", ":", "[", "]", "^", "~"} ->
              Token(p, next, SingleRuneToken(ch))
         [] ch = "." ->
              IF peekCheck(p, 1, IsDigit(RuneAt(p, p.pos + 1))) > 0
              THEN [Do("scanNumber", <<p>>) EXCEPT !.token = "SK_NumberLiteral"]
              ELSE IF peekEqual(p, 1, ".") >= 0 /\ peekEqual(p, 2, ".") >= 0
              THEN Token(p, peekEqual(p, 2, "."), "SK_DotDotDot")
              ELSE Token(p, next, "SK_Dot")
         [] /\ ch = "0" /\ p.pos + 2 < p.end
            /\ peekCheck(p, 1, IsHexMark(RuneAt(p, p.pos + 1))) >= 0 ->
              \* returns SK_NumberLiteral and leaves s.token as it was
              LET r == scanMinimumNumberOfHexDigits(
                         [p EXCEPT !.pos = peekCheck(p, 1, IsHexMark(RuneAt(p, p.pos + 1)))],
                         1, FALSE)
                  p1 == IF Len(r.result) = 0
                        THEN error(r.p, "M_Hexadecimal_digit_expected") ELSE r.p
              IN [p1 EXCEPT !.tokenValue = "0x" \o (IF Len(r.result) = 0 THEN "0" ELSE r.result),
                            !.tokenFlags = @ \cup {"TF_HexSpecifier"}]
         [] ch \in DigitChars -> [Do("scanNumber", <<p>>) EXCEPT !.token = "SK_NumberLiteral"]
         [] ch = "<" ->
              IF peekEqual(p, 1, "=") >= 0
              THEN Token(p, peekEqual(p, 1, "="), "SK_LessThanEquals")
              ELSE Token(p, next, "SK_LessThan")
         [] ch = "=" ->
              IF peekEqual(p, 1, "=") >= 0
              THEN IF peekEqual(p, 2, "=") >= 0
                   THEN Token(p, peekEqual(p, 2, "="), "SK_EqualsEqualsEquals")
                   ELSE Token(p, peekEqual(p, 1, "="), "SK_EqualsEquals")
              ELSE Token(p, next, "SK_Equals")
         [] ch = ">" ->
              IF peekEqual(p, 1, "=") >= 0
              THEN Token(p, peekEqual(p, 1, "="), "SK_GreaterThanEquals")
              ELSE Token(p, next, "SK_GreaterThan")
         [] ch = "?" ->
              IF peekEqual(p, 1, "?") >= 0
              THEN Token(p, peekEqual(p, 1, "?"), "SK_QuestionQuestion")
              ELSE Token(p, next, "SK_Question")
         [] ch = "|" ->
              IF peekEqual(p, 1, "|") >= 0
              THEN Token(p, peekEqual(p, 1, "|"), "SK_BarBar")
              ELSE Token(p, next, "SK_Bar")
         [] OTHER ->
              IF IsIdentifierStart(ch)
              THEN LET p1 == scanIdentifierRunes([p EXCEPT !.pos = next])
                       p2 == [p1 EXCEPT !.tokenValue = Slice(p.text, p.tokenPos, p1.pos)]
                       r == Do("scanIdentifierParts", <<p2>>)
                   IN getIdentifierToken(
                        IF peekEqual(p2, 0, "\\") > 0
                        THEN [r.p EXCEPT !.tokenValue = p2.tokenValue \o r.result]
                        ELSE p2)
              ELSE Token(error(p, "M_Invalid_character"), next, "SK_Unknown")

\* Scanner.Scan. Nothing runs while a panic unwinds.
Scan(p) ==
  IF p.panic # "" THEN p
  ELSE ScanLoop([p EXCEPT !.startPos = p.pos, !.tokenFlags = {}])

\* CreateScanner with SetText and SetTextPos, inside a new Parser.
CreateScanner(text) ==
  [text |-> text, pos |-> 0, end |-> Len(text), startPos |-> 0, tokenPos |-> 0,
   token |-> "SK_Unknown", tokenValue |-> "", tokenFlags |-> {},
   parseDiagnostics |-> <<>>, panic |-> "", stuck |-> FALSE]

----------------------------------------------------------------------------
(* The parser (parser.go). The record p is the Parser with its Scanner; a  *)
(* parse function yields [p, node]. While a panic unwinds nothing runs, so *)
(* every function returns at once when p.panic is set.                     *)

Keywords ==
  {"SK_TrueKeyword", "SK_FalseKeyword", "SK_NullKeyword", "SK_ThisKeyword",
   "SK_CtxKeyword", "SK_TypeofKeyword"}

\* SyntaxKind.IsIdentifier
IsIdentifier(tok) == tok = "SK_Identifier" \/ tok \in Keywords

\* TokenIsIdentifierOrKeyword: tok >= SK_Identifier
TokenIsIdentifierOrKeyword(tok) == tok = "SK_Identifier" \/ tok \in Keywords

\* SyntaxKind.IsAssignmentOperator: SK_Equals is the only assignment token
\* the scanner produces.
IsAssignmentOperator(tok) == tok = "SK_Equals"

\* SyntaxKind.ToString: the tokens table, "" where it has no entry.
SyntaxKindToString(tok) ==
  CASE tok = "SK_OpenParen" -> "("
    [] tok = "SK_CloseParen" -> ")"
    [] tok = "SK_OpenBracket" -> "["
    [] tok = "SK_CloseBracket" -> "]"
    [] tok = "SK_Dot" -> "."
    [] tok = "SK_Comma" -> ","
    [] tok = "SK_TrueKeyword" -> "true"
    [] tok = "SK_FalseKeyword" -> "false"
    [] tok = "SK_NullKeyword" -> "null"
    [] tok = "SK_ThisKeyword" -> "this"
    [] tok = "SK_CtxKeyword" -> "ctx"
    [] tok = "SK_TypeofKeyword" -> "typeof"
    [] OTHER -> ""

\* formatStringFromArgs of M_0_expected's text "{0} expected".
M_0_expected(arg) == arg \o " expected"

token(p) == p.token
nextToken(p) == Do("Scan", <<p>>)
getNodePos(p) == p.startPos
HasPrecedingLineBreak(p) == "TF_PrecedingLineBreak" \in p.tokenFlags

\* A finishNode that takes the node's start from the scanner as well.
finishNodeAtScanner(p, node, pos) == node @@ [Pos |-> p.startPos, End |-> p.startPos]

\* finishNode with one position: the node ends where the current token's
\* leading trivia starts.
finishNode(p, node, pos) == node @@ [Pos |-> pos, End |-> p.startPos]

fillMissPos(p, node) == node @@ [Pos |-> p.startPos, End |-> p.startPos]

Nil == [kind |-> "nil", Pos |-> 0, End |-> 0]

errorAtCurrentToken(p, message) ==
  errorAtPosition(p, p.tokenPos, p.pos - p.tokenPos, message)

parseExpected(p, kind, diagnosticMessage, shouldAdvance) ==
  IF token(p) = kind
  THEN [p |-> IF shouldAdvance THEN nextToken(p) ELSE p, ok |-> TRUE]
  ELSE [p |-> errorAtCurrentToken(p, IF diagnosticMessage # "" THEN diagnosticMessage
                                      ELSE M_0_expected(SyntaxKindToString(kind))),
        ok |-> FALSE]

want(p, t) == parseExpected(p, t, "", TRUE)

got(p, t) ==
  IF token(p) = t THEN [p |-> nextToken(p), ok |-> TRUE] ELSE [p |-> p, ok |-> FALSE]

parseToken(p) ==
  LET p1 == nextToken(p)
  IN [p |-> p1,
      node |-> finishNode(p1, [kind |-> "TokenNode", Token |-> token(p)], getNodePos(p))]

gotToken(p, t) ==
  IF token(p) = t THEN parseToken(p) ELSE [p |-> p, node |-> Nil]

\* wantToken hands its variadic args on as one slice, which toString renders
\* as a JSON array.
wantToken(p, t, reportAtCurrentPosition, arg) ==
  LET g == gotToken(p, t)
      message == M_0_expected("[\"" \o arg \o "\"]")
      p1 == IF reportAtCurrentPosition
            THEN errorAtPosition(p, p.startPos, 0, message)
            ELSE errorAtCurrentToken(p, message)
  IN IF g.node # Nil THEN g
     ELSE [p |-> p1, node |-> fillMissPos(p1, [kind |-> "TokenNode", Token |-> "SK_Unknown"])]

createIdentifier(p, isIdentifier, diagnosticMessage) ==
  IF isIdentifier
  THEN LET p1 == nextToken(p)
       IN [p |-> p1,
           node |-> finishNode(p1, [kind |-> "Identifier", OriginalToken |-> token(p),
                                    Value |-> p.tokenValue], getNodePos(p))]
  ELSE LET p1 == errorAtCurrentToken(p, IF diagnosticMessage = "" THEN "M_Identifier_expected"
                                        ELSE diagnosticMessage)
       IN [p |-> p1,
           node |-> fillMissPos(p1, [kind |-> "Identifier", OriginalToken |-> "SK_Unknown",
                                     Value |-> ""])]

parseIdentifier(p, diagnosticMessage) ==
  createIdentifier(p, IsIdentifier(token(p)), diagnosticMessage)

\* A panic is unwinding, or a loop was found not to consume.
Halted(p) == p.panic # "" \/ p.stuck

\* The state a loop continues with: an iteration that continues without
\* having moved the scanner never ends.
Progress(p0, p1) ==
  IF p1.panic = "" /\ p1.pos = p0.pos /\ p1.token = p0.token
  THEN [p1 EXCEPT !.stuck = TRUE] ELSE p1

\* Every binary operator on one level.
flatBinaryOperatorPrecedence(p) ==
  IF token(p) \in {"SK_BarBar", "SK_QuestionQuestion", "SK_AmpersandAmpersand", "SK_Bar",
                   "SK_Caret", "SK_Ampersand", "SK_EqualsEquals", "SK_EqualsEqualsEquals",
                   "SK_ExclamationEquals", "SK_ExclamationEqualsEquals", "SK_LessThan",
                   "SK_GreaterThan", "SK_LessThanEquals", "SK_GreaterThanEquals", "SK_Plus",
                   "SK_Minus", "SK_Asterisk", "SK_Slash", "SK_Percent"}
  THEN 1 ELSE -1

getBinaryOperatorPrecedence(p) ==
  CASE token(p) \in {"SK_BarBar", "SK_QuestionQuestion"} -> 1
    [] token(p) = "SK_AmpersandAmpersand" -> 2
    [] token(p) = "SK_Bar" -> 3
    [] token(p) = "SK_Caret" -> 4
    [] token(p) = "SK_Ampersand" -> 5
    [] token(p) \in {"SK_EqualsEquals", "SK_EqualsEqualsEquals", "SK_ExclamationEquals",
                     "SK_ExclamationEqualsEquals"} -> 6
    [] token(p) \in {"SK_LessThan", "SK_GreaterThan", "SK_LessThanEquals",
                     "SK_GreaterThanEquals"} -> 7
    [] token(p) \in {"SK_Plus", "SK_Minus"} -> 9
    [] token(p) \in {"SK_Asterisk", "SK_Slash", "SK_Percent"} -> 10
    [] OTHER -> -1

isBinaryOperator(p) == getBinaryOperatorPrecedence(p) > 0

isStartOfLeftHandSideExpression(p) ==
  \/ token(p) \in {"SK_TrueKeyword", "SK_FalseKeyword", "SK_NumberLiteral",
                   "SK_StringLiteral", "SK_OpenParen", "SK_OpenBracket", "SK_Slash",
                   "SK_Identifier"}
  \/ IsIdentifier(token(p))

isStartOfExpression(p) ==
  \/ isStartOfLeftHandSideExpression(p)
  \/ token(p) \in {"SK_Plus", "SK_Minus", "SK_Tilde", "SK_Exclamation", "SK_LessThan"}
  \/ isBinaryOperator(p)
  \/ IsIdentifier(token(p))

isListElement(p, context) ==
  IF context = "pcArgumentExpressions" THEN isStartOfExpression(p)
  ELSE token(p) = "SK_Comma" \/ isStartOfExpression(p)

isListTerminator(p, kind) ==
  \/ token(p) = "SK_EndOfFile"
  \/ IF kind = "pcArgumentExpressions"
     THEN token(p) \in {"SK_CloseParen", "SK_DotDotDot"}
     ELSE token(p) = "SK_CloseBracket"

parsingContextErrors(context) ==
  IF context = "pcArgumentExpressions" THEN "M_Argument_expression_expected"
  ELSE "M_Expression_or_comma_expected"

\* Reporting the error and staying on the token.
reportErrorAndStay(p, kind) == errorAtCurrentToken(p, parsingContextErrors(kind))

reportErrorAndMoveToNextToken(p, kind) ==
  nextToken(errorAtCurrentToken(p, parsingContextErrors(kind)))

parseLiteralExpression(p) ==
  LET p1 == nextToken(p)
  IN [p |-> p1,
      node |-> finishNode(p1, LiteralExpression(token(p), p.tokenValue), getNodePos(p))]

\* lookAhead(p, p.nextTokenIsIdentifierOrKeywordOnSameLine): the scanner and
\* the diagnostics are restored after the look.
nextTokenIsIdentifierOrKeywordOnSameLine(p) ==
  LET p1 == nextToken(p)
  IN TokenIsIdentifierOrKeyword(token(p1)) /\ ~HasPrecedingLineBreak(p1)

lookAhead(p) == IF Halted(nextToken(p)) THEN nextToken(p) ELSE p

parseRightSideOfDot(p) ==
  IF HasPrecedingLineBreak(p) /\ TokenIsIdentifierOrKeyword(token(p))
     /\ nextTokenIsIdentifierOrKeywordOnSameLine(p)
  THEN LET p1 == errorAtPosition(lookAhead(p), p.startPos, 0, "M_Identifier_expected")
       IN [p |-> p1,
           node |-> fillMissPos(p, [kind |-> "Identifier", OriginalToken |-> "SK_Unknown",
                                    Value |-> ""])]
  ELSE IF HasPrecedingLineBreak(p) /\ TokenIsIdentifierOrKeyword(token(p))
  THEN parseIdentifier(lookAhead(p), "")
  ELSE parseIdentifier(p, "")

\* The tree keeps the operator's TokenNode next to its kind.
makeBinaryExpression(p, left, operator, right) ==
  finishNode(p, BinaryExpression(left, operator.Token, right) @@ [OperatorNode |-> operator],
             left.Pos)

RECURSIVE parseExpression(_)
RECURSIVE parseExpressionLoop(_, _)
RECURSIVE parseConditionalExpression(_, _)
RECURSIVE parseBinaryExpression(_, _)
RECURSIVE parseBinaryExpressionRest(_, _, _)
RECURSIVE parseSimpleUnaryExpression(_)
RECURSIVE parseMemberExpressionRest(_, _)
RECURSIVE parseCallExpressionRest(_, _)
RECURSIVE parseDelimitedListLoop(_, _, _, _)

\* The for loop of parseDelimitedList; parseElement is
\* parseArgumentOrArrayLiteralElement in both contexts.
parseDelimitedListLoop(p, kind, list, commaStart) ==
  IF Halted(p) THEN [p |-> p, list |-> list, commaStart |-> commaStart]
  ELSE IF isListElement(p, kind)
  THEN LET e == Do("parseAssignmentExpressionOrHigher", <<p>>)
           list1 == Append(list, e.node)
           g == got(e.p, "SK_Comma")
           x == parseExpected(e.p, "SK_Comma", "", TRUE)
       IN IF g.ok
          THEN parseDelimitedListLoop(Progress(p, g.p), kind, list1, e.p.tokenPos)
          ELSE IF isListTerminator(e.p, kind)
          THEN [p |-> e.p, list |-> list1, commaStart |-> -1]
          ELSE parseDelimitedListLoop(Progress(p, x.p), kind, list1, -1)
  ELSE IF isListTerminator(p, kind)
  THEN [p |-> p, list |-> list, commaStart |-> commaStart]
  ELSE parseDelimitedListLoop(Progress(p, reportErrorAndMoveToNextToken(p, kind)),
                              kind, list, commaStart)

parseDelimitedList(p, kind, allowTrailingComma) ==
  LET r == parseDelimitedListLoop(p, kind, <<>>, -1)
  IN [p |-> IF r.commaStart >= 0 /\ ~allowTrailingComma
            THEN errorAtCurrentToken(r.p, "M_Trailing_comma_not_allowed") ELSE r.p,
      list |-> r.list]

parseArgumentList(p) ==
  LET w == want(p, "SK_OpenParen")
      l == parseDelimitedList(w.p, "pcArgumentExpressions", FALSE)
      t == IF token(l.p) = "SK_DotDotDot" THEN parseToken(l.p) ELSE [p |-> l.p, node |-> Nil]
  IN IF ~w.ok THEN [p |-> w.p, list |-> <<>>, token |-> Nil]
     ELSE [p |-> want(t.p, "SK_CloseParen").p, list |-> l.list, token |-> t.node]

parseParenthesizedExpression(p) ==
  LET e == parseExpression(want(p, "SK_OpenParen").p)
      p1 == want(e.p, "SK_CloseParen").p
  IN [p |-> p1, node |-> finishNode(p1, ParenthesizedExpression(e.node), getNodePos(p))]

parseArrayLiteralExpression(p) ==
  LET l == parseDelimitedList(want(p, "SK_OpenBracket").p, "pcArrayLiteralMembers", FALSE)
      p1 == want(l.p, "SK_CloseBracket").p
  IN [p |-> p1, node |-> finishNode(p1, ArrayLiteralExpression(l.list), getNodePos(p))]

parsePrimaryExpression(p) ==
  CASE token(p) \in {"SK_NumberLiteral", "SK_StringLiteral", "SK_NullKeyword",
                     "SK_TrueKeyword", "SK_FalseKeyword", "SK_ThisKeyword",
                     "SK_CtxKeyword"} -> parseLiteralExpression(p)
    [] token(p) = "SK_OpenParen" -> parseParenthesizedExpression(p)
    [] token(p) = "SK_OpenBracket" -> parseArrayLiteralExpression(p)
    [] OTHER -> parseIdentifier(p, "M_Expression_expected")

parseMemberExpressionRest(p, expr) ==
  IF Halted(p) \/ HasPrecedingLineBreak(p) THEN [p |-> p, node |-> expr]
  ELSE LET dotToken == gotToken(p, "SK_Dot")
           exclamationDot == gotToken(dotToken.p, "SK_ExclamationDot")
           n == parseRightSideOfDot(exclamationDot.p)
           node == finishNode(n.p, SelectorExpression(expr, n.node, exclamationDot.node # Nil),
                              expr.Pos)
       IN IF dotToken.node # Nil \/ exclamationDot.node # Nil
          THEN parseMemberExpressionRest(Progress(p, n.p), node)
          ELSE [p |-> p, node |-> expr]

parseCallExpressionRest(p, expr) ==
  IF Halted(p) \/ HasPrecedingLineBreak(p) THEN [p |-> p, node |-> expr]
  ELSE LET m == parseMemberExpressionRest(p, expr)
           a == parseArgumentList(m.p)
           node == finishNode(a.p, CallExpression(m.node, a.list, a.token # Nil)
                                     @@ [DotDotDotNode |-> a.token], m.node.Pos)
       IN IF token(m.p) = "SK_OpenParen"
          THEN parseCallExpressionRest(Progress(p, a.p), node)
          ELSE m

parseMemberExpressionOrHigher(p) ==
  LET e == parsePrimaryExpression(p) IN parseMemberExpressionRest(e.p, e.node)

parseLeftHandSideExpressionOrHigher(p) ==
  LET e == parseMemberExpressionOrHigher(p) IN parseCallExpressionRest(e.p, e.node)

parsePrefixUnaryExpression(p) ==
  LET t == parseToken(p)
      o == parseSimpleUnaryExpression(t.p)
  IN [p |-> o.p,
      node |-> finishNode(o.p, PrefixUnaryExpression(t.node.Token, o.node)
                                 @@ [OperatorNode |-> t.node], getNodePos(p))]

parseTypeOfExpression(p) ==
  LET e == parseSimpleUnaryExpression(nextToken(p))
  IN [p |-> e.p, node |-> finishNode(e.p, TypeOfExpression(e.node), getNodePos(p))]

parseSimpleUnaryExpression(p) ==
  IF Halted(p) THEN [p |-> p, node |-> Nil]
  ELSE CASE token(p) \in {"SK_Plus", "SK_Minus", "SK_Tilde", "SK_Exclamation",
                          "SK_ExclamationExclamation"} -> parsePrefixUnaryExpression(p)
         [] token(p) = "SK_TypeofKeyword" -> parseTypeOfExpression(p)
         [] OTHER -> Do("parseLeftHandSideExpressionOrHigher", <<p>>)

parseUnaryExpression(p) == parseSimpleUnaryExpression(p)

parseBinaryExpressionRest(p, precedence, leftOperand) ==
  IF Halted(p) THEN [p |-> p, node |-> leftOperand]
  ELSE LET newPrecedence == getBinaryOperatorPrecedence(p)
           t == parseToken(p)
           r == parseBinaryExpression(t.p, newPrecedence)
       IN IF newPrecedence > precedence
          THEN parseBinaryExpressionRest(Progress(p, r.p), precedence,
                                         makeBinaryExpression(r.p, leftOperand, t.node, r.node))
          ELSE [p |-> p, node |-> leftOperand]

parseBinaryExpression(p, precedence) ==
  LET l == parseUnaryExpression(p) IN parseBinaryExpressionRest(l.p, precedence, l.node)

parseConditionalExpression(p, leftOperand) ==
  LET questionToken == gotToken(p, "SK_Question")
      whenTrue == Do("parseAssignmentExpressionOrHigher", <<questionToken.p>>)
      colonTok == wantToken(whenTrue.p, "SK_Colon", FALSE, SyntaxKindToString("SK_Colon"))
      whenFalse == Do("parseAssignmentExpressionOrHigher", <<colonTok.p>>)
  IN IF questionToken.node = Nil THEN [p |-> p, node |-> leftOperand]
     ELSE [p |-> whenFalse.p,
           node |-> finishNode(whenFalse.p,
                      ConditionalExpression(leftOperand, whenTrue.node, whenFalse.node)
                        @@ [QuestionTok |-> questionToken.node, ColonTok |-> colonTok.node],
                      leftOperand.Pos)]

parseAssignmentExpressionOrHigher(p) ==
  IF Halted(p) THEN [p |-> p, node |-> Nil]
  ELSE LET e == parseBinaryExpression(p, 0)
           t == parseToken(e.p)
           r == Do("parseAssignmentExpressionOrHigher", <<t.p>>)
       IN IF IsAssignmentOperator(token(e.p))
          THEN [p |-> r.p, node |-> makeBinaryExpression(r.p, e.node, t.node, r.node)]
          ELSE parseConditionalExpression(e.p, e.node)

\* The comma loop of parseExpression.
parseExpressionLoop(p, expr) ==
  IF Halted(p) THEN [p |-> p, node |-> expr]
  ELSE LET operatorToken == gotToken(p, "SK_Comma")
           r == Do("parseAssignmentExpressionOrHigher", <<operatorToken.p>>)
       IN IF operatorToken.node = Nil THEN [p |-> p, node |-> expr]
          ELSE parseExpressionLoop(Progress(p, r.p),
                                   makeBinaryExpression(r.p, expr, operatorToken.node, r.node))

parseExpression(p) ==
  LET e == Do("parseAssignmentExpressionOrHigher", <<p>>) IN parseExpressionLoop(e.p, e.node)

\* GetTokenText
GetTokenText(p) == Slice(p.text, p.tokenPos, p.pos)

\* parseSourceFileWorker: the SourceCode, or the state in which a panic
\* unwinds.
parseSourceFileWorker(content) ==
  LET p0 == nextToken(CreateScanner(content))
      e == parseExpression(p0)
      p1 == IF token(e.p) = "SK_EndOfFile" THEN e.p
            ELSE Raise(e.p, "End of file not reached, stop at " \o IntToStr(e.p.pos)
                            \o "(\"" \o GetTokenText(e.p) \o "\")")
      t == parseToken(p1)
  IN [p |-> t.p,
      sourceCode |-> [Text |-> content, Expression |-> e.node, EndOfFileToken |-> t.node,
                      Diagnostics |-> t.p.parseDiagnostics]]

RECURSIVE ComputeLineStartsFrom(_, _, _, _)
ComputeLineStartsFrom(text, pos, lineStart, result) ==
  IF pos >= Len(text) THEN Append(result, lineStart)
  ELSE LET ch == CharAt(text, pos + 1)
           pos1 == pos + 1
           pos2 == IF ch = "\r" /\ pos1 + 1 < Len(text) /\ CharAt(text, pos1 + 1) = "\n"
                   THEN pos1 + 1 ELSE pos1
       IN IF ch \in {"\r", "\n"}
          THEN ComputeLineStartsFrom(text, pos2, pos2, Append(result, lineStart))
          ELSE ComputeLineStartsFrom(text, pos1, lineStart, result)

ComputeLineStarts(text) == ComputeLineStartsFrom(text, 0, 0, <<>>)

\* BinarySearch: the index of value, else the complement ^low = -low - 1.
RECURSIVE BinarySearchFrom(_, _, _, _)
BinarySearchFrom(array, value, low, high) ==
  IF low > high THEN 0 - low - 1
  ELSE LET middle == low + ((high - low) \div 2)
           midValue == array[middle + 1]
       IN IF midValue = value THEN middle
          ELSE IF midValue > value THEN BinarySearchFrom(array, value, low, middle - 1)
          ELSE BinarySearchFrom(array, value, middle + 1, high)

BinarySearch(array, value) == BinarySearchFrom(array, value, 0, Len(array) - 1)

PositionFromOffsetWithCache(offset, content, lineStarts) ==
  LET found == BinarySearch(lineStarts, offset)
      lineNumber == IF found < 0 THEN (0 - found - 1) - 1 ELSE found
  IN IF offset > Len(content) THEN [Line |-> 0, Column |-> 0, panic |-> ""]
     ELSE IF lineNumber < 0 \/ lineNumber >= Len(lineStarts)
     THEN [Line |-> lineNumber, Column |-> 0, panic |-> "index out of range"]
     ELSE [Line |-> lineNumber, Column |-> offset - lineStarts[lineNumber + 1],
           panic |-> ""]

GetFileLineAndCharacterFromPosition(file, position) ==
  PositionFromOffsetWithCache(position, file.Text, ComputeLineStarts(file.Text))

FormatDiagnostic(source, diagnostic) ==
  LET loc == GetFileLineAndCharacterFromPosition(source, diagnostic.Start)
  IN [panic |-> loc.panic,
      text |-> "pos(" \o IntToStr(loc.Line) \o ", " \o IntToStr(loc.Column) \o ") error("
               \o IntToStr(diagnostic.Code) \o ") " \o diagnostic.MessageText]

\* ParseSourceCode with its deferred recover: what the caller gets. A recovered
\* panic leaves source nil and err the panic's text; source "nil" is Nil and
\* err "" is nil. A panic inside the deferred function is not recovered, and
\* an input on which a loop never ends yields no return.
ParseSourceCode(content) ==
  LET w == parseSourceFileWorker(content)
      formatted == FormatDiagnostic(w.sourceCode, w.sourceCode.Diagnostics[1])
  IN IF w.p.stuck THEN [kind |-> "diverges"]
     ELSE IF w.p.panic # ""
     THEN [kind |-> "returned", source |-> Nil, err |-> w.p.panic, recovered |-> TRUE]
     ELSE IF Len(w.sourceCode.Diagnostics) = 0
     THEN [kind |-> "returned", source |-> w.sourceCode, err |-> "", recovered |-> FALSE]
     ELSE IF formatted.panic # "" THEN [kind |-> "panics", panic |-> formatted.panic]
     ELSE [kind |-> "returned", source |-> w.sourceCode, err |-> formatted.text,
           recovered |-> FALSE]

\* A call of one of these functions by another: op names the function and a
\* holds its arguments.
Do(op, a) ==
  CASE op = "Scan" -> Scan(a[1])
    [] op = "scanNumber" -> scanNumber(a[1])
    [] op = "scanString" -> scanString(a[1])
    [] op = "scanIdentifierParts" -> scanIdentifierParts(a[1])
    [] op = "scanEscapeSequence" -> scanEscapeSequence(a[1])
    [] op = "scanNumberFragment" -> scanNumberFragment(a[1])
    [] op = "scanExactNumberOfHexDigits" -> scanExactNumberOfHexDigits(a[1], a[2], a[3])
    [] op = "peekUnicodeEscape" -> peekUnicodeEscape(a[1])
    [] op = "parseAssignmentExpressionOrHigher" -> parseAssignmentExpressionOrHigher(a[1])
    [] op = "parseLeftHandSideExpressionOrHigher" -> parseLeftHandSideExpressionOrHigher(a[1])
    [] op = "ParseSourceCode" -> ParseSourceCode(a[1])

----------------------------------------------------------------------------
(* Parsing: a host types a formula text over one alphabet and has it       *)
(* parsed.                                                                 *)

MaxLen == 5

\* The most opening brackets in a text.
MaxDepth == 2

Openers == {"(", "["}

RECURSIVE Opened(_)
Opened(text) ==
  IF text = "" THEN 0
  ELSE (IF CharAt(text, Len(text)) \in Openers THEN 1 ELSE 0)
       + Opened(SubSeq(text, 1, Len(text) - 1))

ParseScenarios == {"leftover", "arrays", "strings", "numbers", "members", "operators"}

Alphabet(sc) ==
  CASE sc = "leftover" -> {"1", "2", "a", " ", "(", ")"}
    [] sc = "arrays" -> {"a", "[", "]", ",", "(", ")"}
    [] sc = "strings" -> {"'", "\\", "x", "u", "1", "\n"}
    [] sc = "numbers" -> {"0", "x", "1", ".", "e", "_"}
    [] sc = "members" -> {"a", ".", "!", "\n", " ", "("}
    [] sc = "operators" -> {"a", "?", ":", ",", "=", "*"}

InitParse ==
  /\ InitRunner
  /\ scen \in ParseScenarios
  /\ nanCmp = 0

\* The host appends one character to the text.
Type(c) ==
  /\ Len(src) < MaxLen
  /\ c \in Openers => Opened(src) < MaxDepth
  /\ src' = src \o c
  /\ parsed' = [kind |-> "none"]
  /\ UNCHANGED <<heap, this, last, prev, nanCmp, proc, race, scen>>

\* ParseSourceCode([]byte(src))
Parse ==
  /\ parsed.kind = "none"
  /\ parsed' = Do("ParseSourceCode", <<src>>)
  /\ UNCHANGED <<heap, this, last, prev, nanCmp, proc, race, scen, src>>

NextParse ==
  \/ \E c \in Alphabet(scen) : Type(c)
  \/ Parse

SpecParse == InitParse /\ [][NextParse]_vars

\* C9: ParseSourceCode returns on every text: no scanner or parser loop goes
\* on without consuming, no panic reaches the caller, and a panic raised while
\* scanning or parsing comes back as the returned error.
C9_ParseTotality ==
  /\ parsed.kind \in {"none", "returned"}
  /\ parsed.kind = "returned" /\ parsed.recovered => parsed.err # ""

\* C9 witness: the argument list of a(,) skipped a token it could not parse,
\* and the panic about the leftover ] came back as the error.
C9_Witness ==
  /\ src = "a(,)]"
  /\ parsed.kind = "returned"
  /\ parsed.recovered
  /\ parsed.err = "End of file not reached, stop at 5(\"]\")"

\* C10: every parse returns a SourceCode with an Expression and the
\* diagnostics, and the error is the formatted first diagnostic.
C10_PlaceholderAst ==
  parsed.kind = "returned" =>
    /\ parsed.source # Nil
    /\ "Expression" \in DOMAIN parsed.source
    /\ Len(parsed.source.Diagnostics) > 0 =>
         parsed.err = FormatDiagnostic(parsed.source, parsed.source.Diagnostics[1]).text

----------------------------------------------------------------------------
(* Operator precedence: a host writes a chain of binary operations over    *)
(* the operands a, b, c, ... and has it parsed.                            *)

\* The most binary operators in a chain.
MaxOperators == 2

Operands == <<"a", "b", "c", "d">>

\* The binary operators as the scanner reads them: text and SyntaxKind.
BinaryOperators ==
  {"||", "??", "&&", "|", "^", "&", "==", "===", "!=", "!==", "<", ">", "<=", ">=",
   "+", "-", "*", "/", "%"}

OperatorToken(o) ==
  CASE o = "||" -> "SK_BarBar"
    [] o = "??" -> "SK_QuestionQuestion"
    [] o = "&&" -> "SK_AmpersandAmpersand"
    [] o = "|" -> "SK_Bar"
    [] o = "^" -> "SK_Caret"
    [] o = "&" -> "SK_Ampersand"
    [] o = "==" -> "SK_EqualsEquals"
    [] o = "===" -> "SK_EqualsEqualsEquals"
    [] o = "!=" -> "SK_ExclamationEquals"
    [] o = "!==" -> "SK_ExclamationEqualsEquals"
    [] o = "<" -> "SK_LessThan"
    [] o = ">" -> "SK_GreaterThan"
    [] o = "<=" -> "SK_LessThanEquals"
    [] o = ">=" -> "SK_GreaterThanEquals"
    [] o = "+" -> "SK_Plus"
    [] o = "-" -> "SK_Minus"
    [] o = "*" -> "SK_Asterisk"
    [] o = "/" -> "SK_Slash"
    [] o = "%" -> "SK_Percent"

\* The number of operators in the chain written so far.
Written == IF src = "" THEN 0
           ELSE (CHOOSE i \in 1..Len(Operands) : Operands[i] = CharAt(src, Len(src))) - 1

InitPrec ==
  /\ InitRunner
  /\ scen = "precedence"
  /\ nanCmp = 0

\* The host appends one operation to the chain.
Write(o) ==
  /\ Written < MaxOperators
  /\ src' = (IF src = "" THEN Operands[1] ELSE src) \o " " \o o \o " "
            \o Operands[Written + 2]
  /\ parsed' = [kind |-> "none"]
  /\ UNCHANGED <<heap, this, last, prev, nanCmp, proc, race, scen>>

NextPrec ==
  \/ \E o \in BinaryOperators : Write(o)
  \/ Parse

SpecPrec == InitPrec /\ [][NextPrec]_vars

\* The levels of the binary operators, lowest first.
Level(o) ==
  CASE o \in {"||", "??"} -> 1
    [] o = "&&" -> 2
    [] o = "|" -> 3
    [] o = "^" -> 4
    [] o = "&" -> 5
    [] o \in {"==", "===", "!=", "!=="} -> 6
    [] o \in {"<", ">", "<=", ">="} -> 7
    [] o \in {"+", "-"} -> 8
    [] o \in {"*", "/", "%"} -> 9

\* e is the operation x o y on two names.
IsOperation(e, x, o, y) ==
  /\ e.kind = "BinaryExpression" /\ e.Operator = OperatorToken(o)
  /\ e.Left.kind = "Identifier" /\ e.Left.Value = x
  /\ e.Right.kind = "Identifier" /\ e.Right.Value = y

\* e is (a o1 b) o2 c.
LeftNested(e, o1, o2) ==
  /\ e.kind = "BinaryExpression" /\ e.Operator = OperatorToken(o2)
  /\ IsOperation(e.Left, "a", o1, "b")
  /\ e.Right.kind = "Identifier" /\ e.Right.Value = "c"

\* e is a o1 (b o2 c).
RightNested(e, o1, o2) ==
  /\ e.kind = "BinaryExpression" /\ e.Operator = OperatorToken(o1)
  /\ e.Left.kind = "Identifier" /\ e.Left.Value = "a"
  /\ IsOperation(e.Right, "b", o2, "c")

\* C11: precedence and associativity of the binary operators. `a o1 b o2 c`
\* parses without diagnostics as (a o1 b) o2 c when the level of o2 is lower
\* than or equal to that of o1, and as a o1 (b o2 c) when it is higher.
C11_Precedence ==
  \A o1, o2 \in BinaryOperators :
    src = "a " \o o1 \o " b " \o o2 \o " c" /\ parsed.kind # "none" =>
      /\ parsed.kind = "returned" /\ parsed.err = ""
      /\ IF Level(o2) <= Level(o1)
         THEN LeftNested(parsed.source.Expression, o1, o2)
         ELSE RightNested(parsed.source.Expression, o1, o2)

\* C11 witness: the multiplication bound tighter than the addition before it.
C11_Witness ==
  /\ src = "a + b * c"
  /\ parsed.kind = "returned"
  /\ RightNested(parsed.source.Expression, "+", "*")

----------------------------------------------------------------------------
(* The reference extractor: ResolveReferenceFields and                     *)
(* ResolveReferenceFieldsNotLocal on the SourceCode that ParseSourceCode   *)
(* returned. A walk yields [err, fields], err "" for nil.                  *)

\* strings.Join
RECURSIVE Join(_, _)
Join(elems, sep) ==
  IF Len(elems) = 0 THEN ""
  ELSE IF Len(elems) = 1 THEN elems[1]
  ELSE elems[1] \o sep \o Join(Tail(elems), sep)

\* resolveSelecotrNames: [err, names]
RECURSIVE resolveSelecotrNames(_)
resolveSelecotrNames(expr) ==
  CASE expr.kind = "SelectorExpression" ->
         LET arr == resolveSelecotrNames(expr.Expression)
         IN IF arr.err # "" THEN [err |-> arr.err, names |-> <<>>]
            ELSE [err |-> "", names |-> Append(arr.names, expr.Name.Value)]
    [] expr.kind = "Identifier" -> [err |-> "", names |-> <<expr.Value>>]
    [] OTHER -> [err |-> "selector name not support type *formula." \o expr.kind,
                 names |-> <<>>]

\* referenceResovle.resolve with the resolveXxx methods of referenceResovle;
\* fields is r.fields.
RECURSIVE referenceResovle(_, _)
RECURSIVE referenceResovleEach(_, _, _)

\* The loops over Elements and Arguments: they return at the first error.
referenceResovleEach(nodes, i, fields) ==
  IF i > Len(nodes) THEN [err |-> "", fields |-> fields]
  ELSE LET r == referenceResovle(nodes[i], fields)
       IN IF r.err # "" THEN r ELSE referenceResovleEach(nodes, i + 1, r.fields)

referenceResovle(node, fields) ==
  CASE node.kind = "Identifier" -> [err |-> "", fields |-> Append(fields, node.Value)]
    [] node.kind = "PrefixUnaryExpression" -> referenceResovle(node.Operand, fields)
    [] node.kind = "BinaryExpression" ->
         LET l == referenceResovle(node.Left, fields)
         IN IF l.err # "" THEN l ELSE referenceResovle(node.Right, l.fields)
    [] node.kind = "ArrayLiteralExpression" -> referenceResovleEach(node.Elements, 1, fields)
    [] node.kind = "ParenthesizedExpression" -> referenceResovle(node.Expression, fields)
    [] node.kind = "LiteralExpression" -> [err |-> "", fields |-> fields]
    [] node.kind = "SelectorExpression" ->
         LET n == resolveSelecotrNames(node)
         IN IF n.err # "" THEN [err |-> n.err, fields |-> fields]
            ELSE [err |-> "", fields |-> Append(fields, Join(n.names, "."))]
    [] node.kind = "CallExpression" -> referenceResovleEach(node.Arguments, 1, fields)
    [] node.kind = "ConditionalExpression" ->
         LET c == referenceResovle(node.Condition, fields)
             t == referenceResovle(node.WhenTrue, c.fields)
         IN IF c.err # "" THEN c
            ELSE IF t.err # "" THEN t
            ELSE referenceResovle(node.WhenFalse, t.fields)
    [] node.kind = "TypeOfExpression" -> referenceResovle(node.Expression, fields)
    [] OTHER -> [err |-> "unknown expression type", fields |-> fields]

\* stringsUniq: the list without its repeated entries, each kept where it
\* first stood.
RECURSIVE stringsUniq(_)
stringsUniq(arr) ==
  IF Len(arr) = 0 THEN <<>>
  ELSE LET init == stringsUniq(SubSeq(arr, 1, Len(arr) - 1))
           x == arr[Len(arr)]
       IN IF \E i \in 1..Len(init) : init[i] = x THEN init ELSE Append(init, x)

\* ResolveReferenceFields: [err, fields], fields <<>> for the nil slice.
ResolveReferenceFields(source) ==
  LET r == referenceResovle(source.Expression, <<>>)
  IN IF r.err # "" THEN [err |-> r.err, fields |-> <<>>]
     ELSE [err |-> "", fields |-> stringsUniq(r.fields)]

\* A loop that appends every field.
keepEvery(fields) == fields

\* The filter loop of ResolveReferenceFieldsNotLocal.
RECURSIVE notLocal(_)
notLocal(fields) ==
  IF Len(fields) = 0 THEN <<>>
  ELSE IF HasDollarPrefix(Head(fields)) THEN notLocal(Tail(fields))
  ELSE <<Head(fields)>> \o notLocal(Tail(fields))

ResolveReferenceFieldsNotLocal(source) ==
  LET r == ResolveReferenceFields(source)
  IN IF r.err # "" THEN [err |-> r.err, fields |-> <<>>]
     ELSE [err |-> "", fields |-> notLocal(r.fields)]

----------------------------------------------------------------------------
(* Reference extraction: a host writes a formula of one or two terms, has  *)
(* it parsed and, when that gave no error, asks for the fields it reads.   *)

Terms ==
  {"a", "$x", "a.b", "p.q.r", "f(a)", "g(a)(b)", "f(x).y", "(a).b", "[a, $y]",
   "o.m(a, $x)", "-a", "'s'", "typeof a"}

InitRef ==
  /\ InitRunner
  /\ scen = "references"
  /\ nanCmp = 0

\* The host writes the formula t1, or t1 + t2.
Compose(t1, t2) ==
  /\ src = ""
  /\ src' = IF t2 = "" THEN t1 ELSE t1 \o " + " \o t2
  /\ parsed' = [kind |-> "none"]
  /\ UNCHANGED <<heap, this, last, prev, nanCmp, proc, race, scen>>

\* ResolveReferenceFields(code), or ResolveReferenceFieldsNotLocal(code), code
\* being what ParseSourceCode returned with a nil error.
Extract(op) ==
  /\ parsed.kind = "returned"
  /\ parsed.err = ""
  /\ last' = [op |-> op,
              out |-> IF op = "ResolveReferenceFields"
                      THEN ResolveReferenceFields(parsed.source)
                      ELSE ResolveReferenceFieldsNotLocal(parsed.source)]
  /\ UNCHANGED <<heap, this, prev, nanCmp, proc, race, scen, src, parsed>>

NextRef ==
  \/ \E t1 \in Terms, t2 \in Terms \cup {""} : Compose(t1, t2)
  \/ Parse
  \/ \E op \in {"ResolveReferenceFields", "ResolveReferenceFieldsNotLocal"} : Extract(op)

SpecRef == InitRef /\ [][NextRef]_vars

\* The names of a chain of selectors on an identifier, <<>> for any other
\* expression.
RECURSIVE PathOf(_)
PathOf(e) ==
  CASE e.kind = "Identifier" -> <<e.Value>>
    [] e.kind = "SelectorExpression" ->
         IF PathOf(e.Expression) = <<>> THEN <<>>
         ELSE Append(PathOf(e.Expression), e.Name.Value)
    [] OTHER -> <<>>

\* The identifiers and dotted paths the expression e reads; the name of a
\* called function is none of them.
RECURSIVE Reads(_)
Reads(e) ==
  CASE e.kind = "Identifier" -> {e.Value}
    [] e.kind = "SelectorExpression" ->
         IF PathOf(e) # <<>> THEN {Join(PathOf(e), ".")} ELSE Reads(e.Expression)
    [] e.kind = "CallExpression" ->
         UNION {Reads(e.Arguments[i]) : i \in 1..Len(e.Arguments)}
           \cup (IF PathOf(e.Expression) # <<>> THEN {} ELSE Reads(e.Expression))
    [] e.kind = "BinaryExpression" -> Reads(e.Left) \cup Reads(e.Right)
    [] e.kind = "ArrayLiteralExpression" ->
         UNION {Reads(e.Elements[i]) : i \in 1..Len(e.Elements)}
    [] e.kind = "ConditionalExpression" ->
         Reads(e.Condition) \cup Reads(e.WhenTrue) \cup Reads(e.WhenFalse)
    [] e.kind = "PrefixUnaryExpression" -> Reads(e.Operand)
    [] e.kind \in {"ParenthesizedExpression", "TypeOfExpression"} -> Reads(e.Expression)
    [] OTHER -> {}

\* The entries of a list.
Entries(fields) == {fields[i] : i \in 1..Len(fields)}

\* C12: reference extraction is sound. On an AST that parsed without
\* diagnostics ResolveReferenceFields returns no error, and every identifier
\* and every dotted path the formula reads is in the list, also those inside
\* the arguments of a call that is a callee or a selector base and inside a
\* parenthesized selector base.
C12_ReferenceSoundness ==
  last.op = "ResolveReferenceFields" =>
    /\ last.out.err = ""
    /\ Reads(parsed.source.Expression) \subseteq Entries(last.out.fields)

\* The entries of fields that do not start with `$`, in their order.
WithoutLocals(fields) ==
  LET keep == {i \in 1..Len(fields) : CharAt(fields[i], 1) # "$"}
      nth(k) == CHOOSE i \in keep : Cardinality({j \in keep : j < i}) = k - 1
  IN [k \in 1..Cardinality(keep) |-> fields[nth(k)]]

\* C13: the not-local filter. ResolveReferenceFieldsNotLocal returns exactly
\* the entries of ResolveReferenceFields that do not start with `$`, in the
\* same order, and fails exactly when ResolveReferenceFields fails.
C13_NotLocalFilter ==
  last.op = "ResolveReferenceFieldsNotLocal" =>
    LET all == ResolveReferenceFields(parsed.source)
    IN /\ (last.out.err # "") = (all.err # "")
       /\ all.err = "" =>
            /\ last.out.fields = WithoutLocals(all.fields)
            /\ \A i \in 1..Len(last.out.fields) : CharAt(last.out.fields[i], 1) # "$"

\* C13 witness: the filter dropped `$x` and kept the other entries of
\* `o.m(a, $x) + p.q.r`.
C13_Witness ==
  /\ src = "o.m(a, $x) + p.q.r"
  /\ last.op = "ResolveReferenceFieldsNotLocal"
  /\ ResolveReferenceFields(parsed.source).fields = <<"a", "$x", "p.q.r">>
  /\ last.out = [err |-> "", fields |-> <<"a", "p.q.r">>]

----------------------------------------------------------------------------
(* Further properties of the Runner API *)

\* The binding of k as the evaluator sees it, a nil pointer being Null.
Seen(k) == IF IsNull(Bound(k)) THEN Null ELSE formatInput(Bound(k))

\* C14: strict equality. `a === b` is true exactly when both operands are
\* Null (a nil pointer of the host included) or have the same tag and the same
\* value, it is a Bool for every pair of values, and `!==` is its negation;
\* `0 === null` and `v === 'x'` with v unbound are false.
C14_StrictEquality ==
  /\ Resolved("a === b") => last.out = [kind |-> "ok", v |-> Bool(Seen("a") = Seen("b"))]
  /\ Resolved("a !== b") => last.out = [kind |-> "ok", v |-> Bool(Seen("a") # Seen("b"))]
  /\ Resolved("0 === null") => last.out = [kind |-> "ok", v |-> Bool(FALSE)]
  /\ Resolved("v === 'x'") => last.out = [kind |-> "ok", v |-> Bool(FALSE)]

\* The binding of k is a value on which a condition takes its first branch:
\* true, a number that is neither 0 nor NaN, a non-empty string, an object.
Selects(k) ==
  LET v == Seen(k)
  IN CASE v.t = "bool" -> v.b
       [] v.t = "num" -> v.n # 0
       [] v.t = "str" -> v.s # ""
       [] v.t \in {"null", "nan"} -> FALSE
       [] OTHER -> TRUE

\* C15: the ternary. `c ? a : b` takes a when c is truthy, whatever its type,
\* and b when c is Null, 0, NaN, '' or false; its value is that of the branch
\* taken, and the other branch is not evaluated: its assignment does not
\* happen and its error is not returned.
C15_Ternary ==
  [][/\ ResolveStep("c ? 'a' : 'b'") =>
          last'.out = [kind |-> "ok", v |-> IF Selects("c") THEN Str("a") ELSE Str("b")]
     /\ ResolveStep("c ? ($t = 1) : ($u = 2)") =>
          IF Selects("c")
          THEN /\ last'.out = [kind |-> "ok", v |-> F64(1)]
               /\ Bound("$t")' = Num(1)
               /\ ("$u" \in DOMAIN ThisMap(View(Main)))' = ("$u" \in DOMAIN ThisMap(View(Main)))
          ELSE /\ last'.out = [kind |-> "ok", v |-> F64(2)]
               /\ Bound("$u")' = Num(2)
               /\ ("$t" \in DOMAIN ThisMap(View(Main)))' = ("$t" \in DOMAIN ThisMap(View(Main)))
     /\ ResolveStep("c ? n!.f : 1") =>
          IF Selects("c") THEN last'.out.kind = "err"
          ELSE last'.out = [kind |-> "ok", v |-> F64(1)]
     /\ ResolveStep("c ? 1 : n!.f") =>
          IF Selects("c") THEN last'.out = [kind |-> "ok", v |-> F64(1)]
          ELSE last'.out.kind = "err"]_vars

\* C15 witness: a non-empty string as the condition took the first branch,
\* which bound `$t`, and left `$u` unbound.
C15_Witness ==
  /\ Resolved("c ? ($t = 1) : ($u = 2)")
  /\ Bound("c") = Str("x")
  /\ Bound("$t") = Num(1)
  /\ "$u" \notin DOMAIN ThisMap(View(Main))

\* The error of `n!.f` with n unbound.
NullAccess == [kind |-> "err", msg |-> "value is null, can't access attribute"]

\* C16: evaluation order and error propagation. The operands of a binary
\* operator, the elements of an array literal and the arguments of a call
\* are evaluated left to right: an assignment on the left is seen on the
\* right and not the other way round. At the first failing subexpression
\* Resolve returns that error, and no assignment to its right happens.
C16_LeftToRight ==
  [][/\ ResolveStep("($t = 1) + $t") => last'.out = [kind |-> "ok", v |-> F64(2)]
     /\ ResolveStep("$u + ($u = 1)") =>
          last'.out = [kind |-> "ok", v |-> F64(IF IsNull(Bound("$u")) THEN 1 ELSE 2)]
     /\ ResolveStep("[$w = a, $w]") =>
          last'.out = [kind |-> "ok", v |-> Arr(<<Seen("a"), Seen("a")>>)]
     /\ \A f \in {"n!.f + ($v = 1)", "[$w = a, n!.f, $v = 2]", "max($w = a, n!.f, $v = 3)"} :
          ResolveStep(f) =>
            /\ last'.out = NullAccess
            /\ "$v" \notin DOMAIN ThisMap(View(Main))'
            /\ f # "n!.f + ($v = 1)" =>
                 "$w" \in DOMAIN ThisMap(View(Main))' /\ Bound("$w")' = Seen("a")]_vars

\* C16 witness: the call stopped at its failing second argument after the
\* first one had bound `$w` to the value of a, and `$v` stayed unbound.
C16_Witness ==
  /\ Resolved("max($w = a, n!.f, $v = 3)")
  /\ last.out = NullAccess
  /\ Bound("a") = GoInt(5)
  /\ Bound("$w") = Num(5)
  /\ "$v" \notin DOMAIN ThisMap(View(Main))

\* The number of argument expressions of a call formula of "arity".
Given(f) ==
  CASE f = "f()" -> 0
    [] f = "f('a')" -> 1
    [] f = "f('a', 1)" -> 2
    [] f = "f('a', 1, 2)" -> 3
    [] f = "f(1, 1, 1)" -> 3
    [] f = "f(1, 1, 1, 1)" -> 4

\* The declared parameters of the function g, not counting a leading context.
Declared(g) ==
  IF Len(FuncIn(g)) > 0 /\ FuncIn(g)[1] = "context" THEN Len(FuncIn(g)) - 1
  ELSE Len(FuncIn(g))

ArgumentCountError(out) ==
  /\ out.kind = "err"
  /\ out.msg \in {"argument count except", "argument count except greater than or equal"}

\* C17: argument-count validation without spread. With f bound to a
\* non-variadic function of k declared parameters (a leading context not
\* counted), a call fails with an argument-count error unless exactly k
\* arguments are given; with f bound to a variadic function of prefix arity p,
\* it fails with an argument-count error exactly when fewer than p are given.
C17_ArgumentCount ==
  \A f \in Formulas("arity") :
    (Resolved(f) /\ Bound("f").t = "fn") =>
      LET g == Bound("f").f
      IN ArgumentCountError(last.out) <=>
           IF IsVariadic(g) THEN Given(f) < Declared(g) - 1
           ELSE Given(f) # Declared(g)

\* The values of the arguments written before the spread one.
Before(f) ==
  CASE f = "f(xs...)" -> <<>>
    [] f = "f(1, xs...)" -> <<Num(1)>>
    [] f = "f('a', xs...)" -> <<Str("a")>>

\* What Resolve hands back for the call of g on the argument values args,
\* written without the `...` marker.
Applied(g, args) ==
  LET r == CallFunction(Fn(g), args, FALSE, View(Main))
  IN IF r.kind = "ok" THEN [kind |-> "ok", v |-> try2Float64(formatInput(r.v))]
     ELSE [kind |-> r.kind, msg |-> r.msg]

\* C18: spread-apply. A call with the `...` marker of a function that is not
\* variadic fails with the not-variadic error; of a variadic function with an
\* array as last argument value, it is the call on the arguments before the
\* spread one followed by the array's elements, and no argument-count error
\* when these number at least the prefix arity.
C18_SpreadApply ==
  \A f \in Formulas("spread") :
    (Resolved(f) /\ Bound("f").t = "fn") =>
      LET g == Bound("f").f
          expanded == Before(f) \o Bound("xs").xs
      IN /\ ~IsVariadic(g) =>
              last.out = [kind |-> "err", msg |-> "not have variadic parammeter"]
         /\ (IsVariadic(g) /\ Bound("xs").t = "arr") =>
              /\ last.out = Applied(g, expanded)
              /\ Len(expanded) >= Declared(g) - 1 => ~ArgumentCountError(last.out)

\* What Resolve hands back for a call of "nullarg" when the argument a is the
\* zero value of the parameter's type: "" for string, 0 for int, the zero
\* instant (1 January of year 1) for time.Time, an empty list for []string,
\* nil for interface{}.
OnZero(f) ==
  CASE f = "len(a)" -> Applied("len", <<Str("")>>)
    [] f = "finite(a)" -> [kind |-> "ok", v |-> F64(0)]
    [] f = "year(a)" -> Applied("year", <<Time(1, 1, 1)>>)
    [] f = "date(a, 1, 1)" -> Applied("date", <<Num(0), Num(1), Num(1)>>)
    [] f = "includes(a, 'x')" -> Applied("includes", <<Arr(<<>>), Str("x")>>)

\* C19: Null arguments. A call whose argument is Null is the call on the zero
\* value of the declared parameter type, for string, integer, time, slice and
\* interface parameters alike, and fails neither by error nor by panic.
C19_NullArguments ==
  \A f \in Formulas("nullarg") \ {"abs(a)"} :
    (Resolved(f) /\ Bound("a") = Null) =>
      /\ last.out.kind = "ok"
      /\ last.out = OnZero(f)

\* The member name of a selector formula of "member", and its `!.` mark.
Member(f) == IF f \in {"a.f", "a!.f"} THEN "f" ELSE "g"
Asserted(f) == f \in {"a!.f", "a!.g"}

\* The Object or struct-like value v has no key or field called name; a
\* time.Time has no field a formula can name.
Missing(v, name) ==
  \/ v.t \in {"obj", "struct"} /\ name \notin DOMAIN v.m
  \/ v.t = "time"

\* C20: member access. `base!.name` on a Null base returns the null-access
\* error; every other selector returns a value, never an error or a panic:
\* Null on a Null base, Null for a key missing from an Object, Null for a
\* field missing from a struct-like host value.
C20_MemberAccess ==
  \A f \in Formulas("member") :
    Resolved(f) =>
      IF IsNull(Bound("a")) /\ Asserted(f) THEN last.out = NullAccess
      ELSE /\ last.out.kind = "ok"
           /\ IsNull(Bound("a")) => last.out.v = Null
           /\ Missing(Bound("a"), Member(f)) => last.out.v = Null

\* C21: bitwise complement. With a bound to a number x, `~a` is the
\* complement of x as a 64-bit signed integer, -x - 1: `~0` is -1, `~5` is -6,
\* `~(-1)` is 0.
C21_BitwiseComplement ==
  (Resolved("~a") /\ Seen("a").t = "num") =>
    last.out = [kind |-> "ok", v |-> F64(0 - Seen("a").n - 1)]

\* C22: logical not. For every value of a, `!a` evaluates without error to
\* the negation of a's truthiness, the Bool that `!!a` is not.
C22_LogicalNot ==
  Resolved("!a") => last.out = [kind |-> "ok", v |-> Bool(~toBool(Seen("a")))]

---------------------------------------------------------------------------
(* Further properties of ParseSourceCode *)

\* A node that stands for a missing token or identifier, or for no node.
Placeholder(n) ==
  \/ n = Nil
  \/ n.kind = "Identifier" /\ n.OriginalToken = "SK_Unknown"
  \/ n.kind = "TokenNode" /\ n.Token = "SK_Unknown"

\* The child nodes of a node of the parsed tree.
Children(n) ==
  CASE n.kind = "BinaryExpression" -> <<n.Left, n.OperatorNode, n.Right>>
    [] n.kind = "PrefixUnaryExpression" -> <<n.OperatorNode, n.Operand>>
    [] n.kind = "ConditionalExpression" ->
         <<n.Condition, n.QuestionTok, n.WhenTrue, n.ColonTok, n.WhenFalse>>
    [] n.kind = "SelectorExpression" -> <<n.Expression, n.Name>>
    [] n.kind = "CallExpression" -> <<n.Expression>> \o n.Arguments \o <<n.DotDotDotNode>>
    [] n.kind = "ArrayLiteralExpression" -> n.Elements
    [] n.kind \in {"ParenthesizedExpression", "TypeOfExpression"} -> <<n.Expression>>
    [] OTHER -> <<>>

\* Every node under n that is no placeholder lies in the text and holds the
\* ranges of its children.
RECURSIVE RangesNest(_)
RangesNest(n) ==
  \/ Placeholder(n)
  \/ /\ 0 <= n.Pos /\ n.Pos <= n.End /\ n.End <= Len(src)
     /\ \A i \in 1..Len(Children(n)) :
          LET c == Children(n)[i]
          IN /\ Placeholder(c) \/ (n.Pos <= c.Pos /\ c.End <= n.End)
             /\ RangesNest(c)

\* C23: source-range containment. In the tree ParseSourceCode returns, every
\* node that is no placeholder has 0 <= Pos <= End <= len(source), and the
\* range of every child (operand, operator token, selector name, argument,
\* element) lies within its parent's.
C23_RangeContainment ==
  (parsed.kind = "returned" /\ parsed.source # Nil) =>
    /\ RangesNest(parsed.source.Expression)
    /\ RangesNest(parsed.source.EndOfFileToken)

\* C23 witness: `a?a:a`, parsed into a conditional whose `:` token is at 3..4
\* and whose last operand is at 4..5, inside the conditional's 0..5.
C23_Witness ==
  /\ src = "a?a:a"
  /\ parsed.kind = "returned"
  /\ parsed.source.Expression.kind = "ConditionalExpression"
  /\ parsed.source.Expression.Pos = 0 /\ parsed.source.Expression.End = 5
  /\ parsed.source.Expression.ColonTok.Pos = 3 /\ parsed.source.Expression.ColonTok.End = 4
  /\ parsed.source.Expression.WhenFalse.Pos = 4 /\ parsed.source.Expression.WhenFalse.End = 5

\* The text s with its numeric separators left out.
RECURSIVE WithoutSeparators(_)
WithoutSeparators(s) ==
  IF Len(s) = 0 THEN ""
  ELSE (IF CharAt(s, 1) = "_" THEN "" ELSE CharAt(s, 1))
         \o WithoutSeparators(SubSeq(s, 2, Len(s)))

\* s is digits with an optional fraction, and each of its separators (it has
\* one at least) stands singly between two digits.
SinglySeparated(s) ==
  /\ Len(s) > 0
  /\ \A i \in 1..Len(s) : CharAt(s, i) \in DigitChars \cup {"_", "."}
  /\ \E i \in 1..Len(s) : CharAt(s, i) = "_"
  /\ Cardinality({i \in 1..Len(s) : CharAt(s, i) = "."}) <= 1
  /\ \A i \in 1..Len(s) :
       CharAt(s, i) \notin DigitChars =>
         /\ 1 < i /\ i < Len(s)
         /\ IsDigit(CharAt(s, i - 1)) /\ IsDigit(CharAt(s, i + 1))

\* C24: a numeric literal whose separators each stand singly between two
\* digits parses without a diagnostic into a NumberLiteral whose value is the
\* literal with the separators removed.
C24_NumericSeparators ==
  (parsed.kind = "returned" /\ SinglySeparated(src)) =>
    /\ parsed.source.Diagnostics = <<>>
    /\ parsed.source.Expression.kind = "LiteralExpression"
    /\ parsed.source.Expression.Token = "SK_NumberLiteral"
    /\ parsed.source.Expression.Value = WithoutSeparators(src)

\* s is 0x followed by hexadecimal digits, one at least.
HexLiteral(s) ==
  /\ Len(s) > 2
  /\ SubSeq(s, 1, 2) = "0x"
  /\ \A i \in 3..Len(s) : CharAt(s, i) \in HexChars

\* C25: the parser reads the kind that Scan returned, so that a hexadecimal
\* literal parses without a diagnostic into a NumberLiteral valued 0x... .
C25_HexLiteral ==
  (parsed.kind = "returned" /\ HexLiteral(src)) =>
    /\ parsed.err = ""
    /\ parsed.source # Nil
    /\ parsed.source.Diagnostics = <<>>
    /\ parsed.source.Expression.kind = "LiteralExpression"
    /\ parsed.source.Expression.Token = "SK_NumberLiteral"
    /\ parsed.source.Expression.Value = src

---------------------------------------------------------------------------
(* Properties of the string builtins *)

\* The bytes of s from max(start, 0) up to min(end, len(s)), "" when that
\* range is empty.
Clamped(s, start, end) ==
  LET from == IF start < 0 THEN 0 ELSE start
      to == IF end > Len(s) THEN Len(s) ELSE end
  IN IF from < to THEN SubSeq(s, from + 1, to) ELSE ""

\* C26: mid(s, start, end) never fails or panics and returns the bytes of s
\* from max(start, 0) up to min(end, len(s)), the empty string when that range
\* is empty.
C26_MidClamps ==
  (/\ Resolved("mid(s, start, end)")
   /\ Bound("s").t = "str" /\ Bound("start").t = "int" /\ Bound("end").t = "int") =>
    last.out =
      [kind |-> "ok", v |-> Str(Clamped(Bound("s").s, Bound("start").n, Bound("end").n))]

\* s ends with sub.
HasSuffix(s, sub) ==
  /\ Len(sub) <= Len(s)
  /\ SubSeq(s, Len(s) - Len(sub) + 1, Len(s)) = sub

\* C30: endWith(s, sub) with a non-empty sub is true exactly when s has sub
\* as a suffix, whether or not sub occurs earlier in s as well.
C30_EndWith ==
  (/\ Resolved("endWith(s, sub)")
   /\ Bound("s").t = "str" /\ Bound("sub").t = "str" /\ Bound("sub").s # "") =>
    last.out = [kind |-> "ok", v |-> Bool(HasSuffix(Bound("s").s, Bound("sub").s))]

---------------------------------------------------------------------------
(* Properties of the bindings of a Runner *)

\* The bindings of the Runner: what its identifiers resolve against besides
\* the builtins table.
Bindings == ThisMap(View(Main))

\* What a Resolve of the formula f would hand back in this state.
WouldResolve(f) == Outcome(ResolveSt(Ast(f), View(Main)))

\* C27: after SetThis(m) the bindings are those of m, so that a temporary of an
\* earlier Resolve reads as m has it, and SetThisValue(k, v) changes the
\* binding of k only.
C27_SetThisReplaces ==
  [][/\ last'.op = "SetThis" =>
          /\ Bindings' = heap[HostMap]
          /\ WouldResolve("$x")' =
               [kind |-> "ok", v |-> try2Float64(MapGet(heap[HostMap], "$x"))]
     /\ last'.op = "SetThisValue" =>
          \E k \in HostKeys(scen), v \in HostValues(scen) :
            Bindings' = MapPut(Bindings, k, v)]_vars

\* C27 witness: a Resolve bound $x in the Runner's own map, and after the
\* SetThis of the host's map, which has no $x, it is unbound.
C27_Witness ==
  /\ last.op = "SetThis"
  /\ prev = "$x = 3, $x + 4"
  /\ this[Main] = HostMap
  /\ Bound("$x") = Null

\* C28: loose equality is symmetric. `a == b` and `b == a` evaluate to the
\* same Bool for all values a and b, and so do `a != b` and `b != a`.
C28_LooseSymmetric ==
  /\ Resolved("a == b") => last.out = WouldResolve("b == a")
  /\ Resolved("a != b") => last.out = WouldResolve("b != a")

---------------------------------------------------------------------------
(* List elements: a host writes an expression as a whole formula, as the    *)
(* argument of a call or as the element of an array literal, and has it     *)
(* parsed.                                                                  *)

\* The prefix operators of the language, and none.
Prefixes == {"", "+", "-", "!", "~", "!!", "typeof "}

\* What they are put before; none has a top-level comma.
Prefixed ==
  {"a", "1", "'s'", "null", "a.b", "f(a)", "[a]", "(a)", "a + a", "a ? a : a", "$x = 1"}

Placings == {"whole", "argument", "element"}

InitList ==
  /\ InitRunner
  /\ scen = "elements"
  /\ nanCmp = 0

\* The host writes the expression e at the place w.
Place(e, w) ==
  /\ src = ""
  /\ src' = CASE w = "whole" -> e
              [] w = "argument" -> "f(" \o e \o ")"
              [] w = "element" -> "[" \o e \o "]"
  /\ last' = [op |-> "Place", e |-> e, w |-> w]
  /\ parsed' = [kind |-> "none"]
  /\ UNCHANGED <<heap, this, prev, nanCmp, proc, race, scen>>

NextList ==
  \/ \E pre \in Prefixes, e \in Prefixed, w \in Placings : Place(pre \o e, w)
  \/ Parse

SpecList == InitList /\ [][NextList]_vars

\* The fields of a node that hold a node, and those that hold a list of nodes.
NodeFields ==
  {"Left", "Right", "OperatorNode", "Operand", "Condition", "WhenTrue", "WhenFalse",
   "QuestionTok", "ColonTok", "Expression", "Name", "DotDotDotNode"}

ListFields == {"Arguments", "Elements"}

\* The subtree n without the positions of its nodes.
RECURSIVE Unplaced(_)
Unplaced(n) ==
  [k \in DOMAIN n \ {"Pos", "End"} |->
     IF k \in NodeFields THEN Unplaced(n[k])
     ELSE IF k \in ListFields THEN [i \in 1..Len(n[k]) |-> Unplaced(n[k][i])]
     ELSE n[k]]

\* The text parses as a whole formula without diagnostics.
ParsesClean(res) ==
  res.kind = "returned" /\ res.err = "" /\ res.source # Nil /\ res.source.Diagnostics = <<>>

\* The nodes of the list that the parsed formula is: the arguments of the
\* call, the elements of the array literal.
Listed ==
  IF parsed.source.Expression.kind = "CallExpression"
  THEN parsed.source.Expression.Arguments
  ELSE IF parsed.source.Expression.kind = "ArrayLiteralExpression"
  THEN parsed.source.Expression.Elements
  ELSE <<>>

\* res, the parse of the placed expression as a whole formula, has the one
\* node of the list as its tree.
SameSubtree(res) ==
  /\ Len(Listed) = 1
  /\ Unplaced(Listed[1]) = Unplaced(res.source.Expression)

\* C29: an expression that parses without diagnostics as a whole formula,
\* having no top-level comma, parses without diagnostics into the same subtree
\* as a call argument and as an array-literal element, whatever prefix
\* operator it starts with.
C29_ListElements ==
  (/\ parsed.kind = "returned"
   /\ last.op = "Place" /\ last.w # "whole"
   /\ ParsesClean(Do("ParseSourceCode", <<last.e>>))) =>
    /\ ParsesClean(parsed)
    /\ SameSubtree(Do("ParseSourceCode", <<last.e>>))

====
